---- MODULE Spec2Model ----
(***************************************************************************)
(* Component runtime of PostureCorrection: the component registry          *)
(* (src/deps/registry.py), the dependency container with its lazily        *)
(* constructed singletons (src/deps/deps.py) and the detector's            *)
(* initialization hook (src/deps/mediapipe_heavy_detector.py).             *)
(*                                                                         *)
(* Every method is cut into steps at the points where another thread can   *)
(* run; a thread's position is pc[t] and its locals are frame[t].          *)
(***************************************************************************)
EXTENDS Integers, Sequences, FiniteSets, TLC

\* ------------------------------------------------------------------ bounds
MaxInst == 2
MaxHandles == 3
MaxCalls == 2

\* ---------------------------------------------------------------- universe
Threads == {"t1", "t2"}
SeqThreads == {"t1"}
None == "None"
Categories == {"detector", "analyzer", "config"}
Classes == {"MediaPipeHeavyDetector", "DefaultAnalyzer", "DefaultConfig"}

\* the capability base class a class derives from (registry.py base_classes)
ClassCategory(cls) ==
  CASE cls = "MediaPipeHeavyDetector" -> "detector"
    [] cls = "DefaultAnalyzer" -> "analyzer"
    [] cls = "DefaultConfig" -> "config"

\* the `name` property of an instance of the class
NameProperty(cls) ==
  CASE cls = "MediaPipeHeavyDetector" -> "MediaPipe-Heavy"
    [] cls = "DefaultAnalyzer" -> "DefaultAnalyzer"
    [] cls = "DefaultConfig" -> "DefaultConfig"

\* the class attribute is_default
ClassIsDefault(cls) ==
  CASE cls = "MediaPipeHeavyDetector" -> FALSE
    [] cls = "DefaultAnalyzer" -> TRUE
    [] cls = "DefaultConfig" -> TRUE

\* hasattr(instance, 'initialize') / hasattr(instance, 'close')
HasInitialize(cls) == cls = "MediaPipeHeavyDetector"
HasClose(cls) == cls = "MediaPipeHeavyDetector"

\* the modules of package src.deps that hold implementations, in the
\* (sorted) order pkgutil.iter_modules yields them
DiscoveredModules == <<"default_analyzer", "default_config", "mediapipe_heavy_detector">>
ModuleClass(m) ==
  CASE m = "default_analyzer" -> "DefaultAnalyzer"
    [] m = "default_config" -> "DefaultConfig"
    [] m = "mediapipe_heavy_detector" -> "MediaPipeHeavyDetector"

\* names callers pass to get / select / reset / register
ArgNames(cat) ==
  CASE cat = "detector" -> {"MediaPipe-Heavy", "MediaPipeHeavyDetector"}
    [] cat = "analyzer" -> {"DefaultAnalyzer"}
    [] cat = "config" -> {"DefaultConfig"}
\* categories callers ask the container for, names they register by hand,
\* and the modules whose import may fail during auto-discovery
CallCategories == {"detector", "analyzer"}
RaceCategories == {"detector"}
RegNames(cat) == IF cat = "detector" THEN {"MediaPipeHeavyDetector"} ELSE {}
RegDefaults == BOOLEAN
FailingChoices == {{}, {"mediapipe_heavy_detector"}}
CategoryClass(cat) == CHOOSE cls \in Classes : ClassCategory(cls) = cat

VARIABLES
  components,     \* Registry._components: category -> ordered <<ComponentInfo>>
  lazy_imports,   \* Registry._lazy_imports: key -> class the loader imports
  loaderCalls,    \* key -> number of times the lazy loader was invoked
  depsInstance,   \* Deps._instance: 0 (None) or the id of the container
  depsLock,       \* Deps._lock: the thread holding it, or None
  initialized,    \* Deps._instance._initialized
  newCount,       \* number of container objects created by __new__
  initCount,      \* number of times the body of __init__ ran
  importer,       \* the thread that imports src.deps.deps (runs line 329)
  imported,       \* the import of src.deps.deps has completed
  instances,      \* Deps._instances: key -> the LazyInstance cached under it
  selections,     \* Deps._current_selections
  lazy,           \* the LazyInstance objects: h -> [inst, lock]
  objs,           \* the component instances: id -> [cls, ok, closes, fate]
  serial,         \* key -> number of instances the factory has built for it
  pc,             \* position of each thread
  frame,          \* locals of each thread's current call
  budget,         \* calls each thread may still start (concurrent runs)
  rcall,          \* the registry call a direct caller made last, and its result
  calc,           \* a call of a function of the detector or the analyzers
  conf,           \* the DefaultConfig instance: section -> field -> value
  cio,            \* the configuration call made last, its input and result
  app             \* PoseComparisonApp._detector, the detector that detected
                  \* the frames processed since the last model change, and
                  \* the model of that change

vars == <<components, lazy_imports, loaderCalls, depsInstance, depsLock,
          initialized, newCount, initCount, importer, imported, instances,
          selections, lazy, objs, serial, pc, frame, budget, rcall,
          calc, conf, cio, app>>

registryVars == <<components, lazy_imports, loaderCalls>>
depsClassVars == <<depsInstance, depsLock, initialized, newCount, initCount,
                   importer, imported>>
containerVars == <<instances, selections, lazy, objs, serial>>
\* state of the callers that use the registry, the configuration and the
\* analyzer directly
directVars == <<rcall, calc, conf, cio, app>>

\* ---------------------------------------------------------------- registry
Key(cat, name) == <<cat, name>>

\* self._components.get(category, {}): the category's ordered dict, empty
\* for a category the table does not have
CategoryTable(comps, cat) == IF cat \in DOMAIN comps THEN comps[cat] ELSE <<>>

\* index of name in the category's ordered dict, 0 when absent
Find(comps, cat, name) ==
  IF \E i \in 1..Len(CategoryTable(comps, cat)) : comps[cat][i].name = name
  THEN CHOOSE i \in 1..Len(comps[cat]) : comps[cat][i].name = name
  ELSE 0

\* self._components[category][name] = ComponentInfo(...): an existing key
\* keeps its position, a new one goes to the end
PutInfo(comps, cat, name, cls, is_default) ==
  LET i == Find(comps, cat, name)
      info == [name |-> name, cls |-> cls, is_default |-> is_default]
  IN IF i = 0
     THEN [comps EXCEPT ![cat] = Append(@, info)]
     ELSE [comps EXCEPT ![cat][i] = info]

RegistryRegister(comps, cat, name, cls, is_default) ==
  PutInfo(comps, cat, name, cls, is_default)

\* Registry.get, first half: must the lazy loader run?
NeedsLoadUncached(comps, lz, cat, name) ==
  /\ Key(cat, name) \in DOMAIN lz
  /\ Find(comps, cat, name) # 0

NeedsLoad(comps, lz, cat, name) ==
  /\ Key(cat, name) \in DOMAIN lz
  /\ Find(comps, cat, name) # 0
  /\ comps[cat][Find(comps, cat, name)].cls = None

\* Registry.get run without interruption: the class it returns ...
RegistryGetOrFirst(comps, lz, cat, name) ==
  LET i == Find(comps, cat, name)
  IN IF i = 0
     THEN IF Len(CategoryTable(comps, cat)) > 0 THEN comps[cat][1].cls ELSE None
     ELSE IF Key(cat, name) \in DOMAIN lz /\ comps[cat][i].cls = None
     THEN lz[Key(cat, name)]
     ELSE comps[cat][i].cls

RegistryGet(comps, lz, cat, name) ==
  LET i == Find(comps, cat, name)
  IN IF i = 0 THEN None
     ELSE IF NeedsLoad(comps, lz, cat, name) THEN lz[Key(cat, name)]
     ELSE comps[cat][i].cls

\* ... and the descriptor table it leaves (the loaded class is cached)
RegistryGetComps(comps, lz, cat, name) ==
  IF NeedsLoad(comps, lz, cat, name)
  THEN [comps EXCEPT ![cat][Find(comps, cat, name)].cls = lz[Key(cat, name)]]
  ELSE comps

RegistryGetLoads(comps, lz, lc, cat, name) ==
  IF NeedsLoad(comps, lz, cat, name)
  THEN [lc EXCEPT ![Key(cat, name)] = @ + 1]
  ELSE lc

\* Registry.get_default: the name of the entry it resolves, None when the
\* category is empty
DefaultNameLast(comps, cat) ==
  LET table == CategoryTable(comps, cat)
  IN IF \E i \in 1..Len(table) : table[i].is_default
     THEN LET i == CHOOSE i \in 1..Len(table) :
                     /\ table[i].is_default
                     /\ \A j \in 1..(i - 1) : ~table[j].is_default
          IN table[i].name
     ELSE IF Len(table) > 0 THEN table[Len(table)].name
     ELSE None

DefaultName(comps, cat) ==
  LET table == CategoryTable(comps, cat)
  IN IF \E i \in 1..Len(table) : table[i].is_default
     THEN LET i == CHOOSE i \in 1..Len(table) :
                     /\ table[i].is_default
                     /\ \A j \in 1..(i - 1) : ~table[j].is_default
          IN table[i].name
     ELSE IF Len(table) > 0 THEN table[1].name
     ELSE None

RegistryGetDefault(comps, lz, cat) ==
  IF DefaultName(comps, cat) = None THEN None
  ELSE RegistryGet(comps, lz, cat, DefaultName(comps, cat))

\* Registry.auto_discover over the modules ms, those in failing raise on import
RECURSIVE AutoDiscoverAborting(_, _, _)
AutoDiscoverAborting(comps, ms, failing) ==
  IF ms = <<>> THEN comps
  ELSE LET m == Head(ms)
           cls == ModuleClass(m)
       IN IF m \in failing
          THEN comps
          ELSE AutoDiscoverAborting(
                 RegistryRegister(comps, ClassCategory(cls), NameProperty(cls),
                                  cls, ClassIsDefault(cls)),
                 Tail(ms), failing)

RECURSIVE AutoDiscover(_, _, _)
AutoDiscover(comps, ms, failing) ==
  IF ms = <<>> THEN comps
  ELSE LET m == Head(ms)
           cls == ModuleClass(m)
       IN IF m \in failing
          THEN AutoDiscover(comps, Tail(ms), failing)
          ELSE AutoDiscover(
                 RegistryRegister(comps, ClassCategory(cls), NameProperty(cls),
                                  cls, ClassIsDefault(cls)),
                 Tail(ms), failing)

\* --------------------------------------------------------------- container
\* Deps._get_instance_key
InstanceKey(cat, name) == Key(cat, name)

\* objects are named by what they were made for and a serial number:
\* <<category, name, n>> is the n-th LazyInstance (in lazy) or the n-th
\* component instance (in objs) made for (category, name); <<>> is None.
\* objs holds the instances that are reachable from the container (fate
\* "live") and those its last cleanup released (fate "cleaned"); an
\* instance dropped by a reset is gone
NoId == <<>>
KeyOf(id) == <<id[1], id[2]>>
FreshHandle(lz, key) ==
  <<key[1], key[2], 1 + Cardinality({x \in DOMAIN lz : KeyOf(x) = key})>>
SerialOf(ser, key) == IF key \in DOMAIN ser THEN ser[key] ELSE 0
FreshObject(ser, key) == <<key[1], key[2], 1 + SerialOf(ser, key)>>
Built(ser) == LET RECURSIVE Sum(_)
                  Sum(ks) == IF ks = {} THEN 0
                             ELSE LET k == CHOOSE x \in ks : TRUE
                                  IN ser[k] + Sum(ks \ {k})
              IN Sum(DOMAIN ser)

\* the LazyInstance cached under key, None when the key is not in _instances
HandleOf(insts, key) == IF key \in DOMAIN insts THEN insts[key] ELSE NoId

\* self._instances[key] = handle
PutHandle(insts, key, h) ==
  [k \in DOMAIN insts \cup {key} |-> IF k = key THEN h ELSE insts[k]]

\* MediaPipeHeavyDetector.initialize: gpuOK / cpuOK say whether building the
\* model with that delegate succeeds
InitializeNoFallback(use_gpu, gpuOK, cpuOK, attempts) ==
  [ok |-> (use_gpu /\ gpuOK) \/ (~use_gpu /\ cpuOK), use_gpu |-> use_gpu,
   attempts |-> attempts + 1]

RECURSIVE Initialize(_, _, _, _)
Initialize(use_gpu, gpuOK, cpuOK, attempts) ==
  IF (use_gpu /\ gpuOK) \/ (~use_gpu /\ cpuOK)
  THEN [ok |-> TRUE, use_gpu |-> use_gpu, attempts |-> attempts + 1]
  ELSE IF use_gpu
       THEN Initialize(FALSE, gpuOK, cpuOK, attempts + 1)
       ELSE [ok |-> FALSE, use_gpu |-> FALSE, attempts |-> attempts + 1]

\* the instance the factory of _create_lazy_instance builds from class cls
NewObject(cat, name, cls, gpuOK, cpuOK) ==
  LET r == IF cat = "detector" /\ HasInitialize(cls)
           THEN Initialize(TRUE, gpuOK, cpuOK, 0)
           ELSE [ok |-> TRUE, use_gpu |-> TRUE, attempts |-> 0]
  IN [cls |-> cls, ok |-> r.ok, closes |-> 0, fate |-> "live"]

\* does the factory raise instead of returning (registry.get gave None)
FactoryRaises(comps, lz, cat, name) == RegistryGet(comps, lz, cat, name) = None

\* ------------------------------------------------------------------ frames
\* the locals of a call: its arguments (cat, arg), the name a get resolved,
\* the LazyInstance it works on, what that held at the unlocked check,
\* whether the call ran the factory, the exception flag, and for cleanup
\* the instances whose close() raises
NoFrame == [op |-> "none", cat |-> None, arg |-> None, name |-> None,
            h |-> NoId, held0 |-> NoId, inv |-> FALSE, stale |-> FALSE,
            err |-> FALSE, raising |-> {}]

NoComponents == [c \in Categories |-> <<>>]

\* ----------------------------------------------------------- configuration
\* a value is [kind, id]: kind is its Python / JSON type, id tells values of
\* one kind apart (id 0 is the default of the field that holds it); Missing
\* marks a key a mapping does not have
Val(kind, id) == [kind |-> kind, id |-> id]
Missing == Val("missing", 0)

Sections == {"detector", "analyzer", "render", "window", "colors"}
\* the order in which from_dict goes through the document
SectionOrder == <<"detector", "analyzer", "render", "window", "colors", "custom">>
\* the fields of the section dataclasses (core/base_config.py)
FieldsOf(section) ==
  CASE section = "detector" ->
         {"min_detection_confidence", "min_tracking_confidence", "model_path"}
    [] section = "analyzer" -> {"angle_threshold"}
    [] section = "render" ->
         {"line_thickness_normal", "line_thickness_bold", "overlay_alpha", "overlay_scale"}
    [] section = "window" -> {"window_name", "camera_width", "camera_height"}
    [] section = "colors" -> {"green", "red", "yellow", "white"}
\* the keys callers put into the free-form custom map; "detector" is also the
\* name of a section
CustomKeys == {"roi", "detector"}

\* DefaultConfig.__init__
NewConfig ==
  LET FieldDefault(section, f) ==
        IF section = "colors" THEN Val("tuple", 0)
        ELSE IF f \in {"model_path", "window_name"} THEN Val("str", 0)
        ELSE Val("num", 0)
  IN [s \in Sections \cup {"custom"} |->
        IF s = "custom" THEN [k \in CustomKeys |-> Missing]
        ELSE [f \in FieldsOf(s) |-> FieldDefault(s, f)]]

NoConfigCall == [op |-> "none", file |-> Missing, res |-> FALSE, made |-> NewConfig]

\* DefaultConfig.set: key is the dotted key split at the dots
ConfigSet(c, key, value) ==
  IF Len(key) = 1
  THEN IF key[1] \in CustomKeys THEN [c EXCEPT !["custom"][key[1]] = value] ELSE c
  ELSE IF key[1] \in Sections /\ key[2] \in FieldsOf(key[1])
       THEN [c EXCEPT ![key[1]][key[2]] = value]
       ELSE c

\* DefaultConfig.get: a single-part key that names an attribute _<key> of the
\* configuration returns that attribute, the section object or the custom
\* map itself, here the value of kind "attribute"
ConfigGet(c, key, default) ==
  IF Len(key) = 1
  THEN IF key[1] \in Sections \cup {"custom"} THEN Val("attribute", 0)
       ELSE IF key[1] \in CustomKeys /\ c["custom"][key[1]] # Missing
            THEN c["custom"][key[1]]
            ELSE default
  ELSE IF key[1] \in Sections /\ key[2] \in FieldsOf(key[1])
       THEN c[key[1]][key[2]]
       ELSE default

\* the keys of a section object in a document: the fields and one name the
\* dataclass does not have
DocKeys(section) ==
  IF section = "custom" THEN CustomKeys ELSE FieldsOf(section) \cup {"extra"}

\* DefaultConfig.to_dict
ToDict(c) ==
  [kind |-> "object",
   sections |-> [s \in Sections \cup {"custom"} |->
                   [kind |-> "object",
                    fields |-> [f \in DocKeys(s) |->
                                  IF f \in DOMAIN c[s] THEN c[s][f] ELSE Missing]]]]

\* json.dump followed by json.load: tuples come back as lists
Json(doc) ==
  LET JsonValue(v) == IF v.kind = "tuple" THEN Val("list", v.id) ELSE v
  IN [doc EXCEPT !.sections =
        [s \in DOMAIN doc.sections |->
           IF doc.sections[s].kind = "object"
           THEN [doc.sections[s] EXCEPT !.fields =
                   [f \in DOMAIN doc.sections[s].fields |->
                      JsonValue(doc.sections[s].fields[f])]]
           ELSE doc.sections[s]]]

\* from_dict line 165: `tuple(v) if isinstance(v, list) else v` for colors
ConvKeep(section, v) == v
Conv(section, v) ==
  IF section = "colors" /\ v.kind = "list" THEN Val("tuple", v.id) ELSE v

\* one `if section in data:` block of from_dict on a section object
ApplySection(c, section, fields) ==
  [c EXCEPT ![section] =
     [f \in DOMAIN c[section] |->
        IF fields[f] # Missing THEN Conv(section, fields[f]) ELSE c[section][f]]]

\* DefaultConfig.from_dict from the i-th section on: [conf, raised]; a
\* section value that is not an object has no items() and raises
RECURSIVE FromDictFrom(_, _, _)
FromDictFrom(c, doc, i) ==
  IF i > Len(SectionOrder) THEN [conf |-> c, raised |-> FALSE]
  ELSE LET sv == doc.sections[SectionOrder[i]]
       IN IF sv.kind = "absent" THEN FromDictFrom(c, doc, i + 1)
          ELSE IF sv.kind # "object" THEN [conf |-> c, raised |-> TRUE]
          ELSE FromDictFrom(ApplySection(c, SectionOrder[i], sv.fields), doc, i + 1)

\* from_dict on any JSON value: `'detector' in data` is false for an array
\* and raises for a number
FromDict(c, doc) ==
  IF doc.kind = "array" THEN [conf |-> c, raised |-> FALSE]
  ELSE IF doc.kind = "number" THEN [conf |-> c, raised |-> TRUE]
  ELSE FromDictFrom(c, doc, 1)

\* DefaultConfig.load_from_file: [conf, res]
LoadFromFile(c, file) ==
  IF file.kind = "missing" THEN [conf |-> c, res |-> FALSE]
  ELSE IF file.kind \in {"unreadable", "invalid"} THEN [conf |-> c, res |-> FALSE]
  ELSE LET r == FromDict(c, file)
       IN [conf |-> r.conf, res |-> ~r.raised]

\* no function called yet
NoCalc == [fn |-> "none", args |-> <<>>, out |-> <<>>]

\* no direct call made yet
NoCall == [op |-> "none", cat |-> None, name |-> None, res |-> None,
           raised |-> FALSE, failing |-> {}]
NoSelections == [c \in Categories |-> None]

\* nothing is imported yet: empty registry, no container
Boot ==
  /\ components = NoComponents
  /\ lazy_imports = <<>>
  /\ loaderCalls = <<>>
  /\ depsInstance = 0
  /\ depsLock = None
  /\ initialized = FALSE
  /\ newCount = 0
  /\ initCount = 0
  /\ importer = None
  /\ imported = FALSE
  /\ instances = <<>>
  /\ selections = NoSelections
  /\ lazy = <<>>
  /\ objs = <<>>
  /\ serial = <<>>
  /\ pc = [t \in Threads |-> "idle"]
  /\ frame = [t \in Threads |-> NoFrame]
  /\ rcall = NoCall
  /\ calc = NoCalc
  /\ conf = NewConfig
  /\ cio = NoConfigCall
  /\ app = [detector |-> NoId, used |-> NoId, changed |-> None]

Init ==
  /\ Boot
  /\ budget = [t \in Threads |-> 0]

Goto(t, label) == pc' = [pc EXCEPT ![t] = label]

\* a call starts: arguments go into the frame
Begin(t, op, cat, arg, label) ==
  /\ pc[t] = "idle"
  /\ frame' = [frame EXCEPT ![t] = [NoFrame EXCEPT !.op = op, !.cat = cat,
                                                    !.arg = arg]]
  /\ pc' = [pc EXCEPT ![t] = label]

\* a call returns to its caller
Return(t) ==
  /\ pc' = [pc EXCEPT ![t] = "idle"]
  /\ frame' = [frame EXCEPT ![t] = NoFrame]

\* a call without a result has done its work and is about to return
Finish(t) ==
  /\ pc' = [pc EXCEPT ![t] = "ret"]
  /\ UNCHANGED frame

Ret(t) ==
  /\ pc[t] = "ret"
  /\ Return(t)
  /\ UNCHANGED <<registryVars, depsClassVars, containerVars>>

\* a call raises: the exception is on its way to the caller
Raise(t) ==
  /\ pc' = [pc EXCEPT ![t] = "raised"]
  /\ frame' = [frame EXCEPT ![t].err = TRUE]

\* the caller receives the exception
Unwind(t) ==
  /\ pc[t] = "raised"
  /\ Return(t)
  /\ UNCHANGED <<registryVars, depsClassVars, containerVars>>

\* ------------------------------------------- Deps.__new__ / Deps.__init__
\* deps.py line 329, `deps = Deps()`, run by the thread that imports the
\* module; the import lock keeps every other thread out until it is done
Import(t) ==
  /\ importer = None
  /\ Begin(t, "import", None, None, "new_check")
  /\ importer' = t
  /\ UNCHANGED <<registryVars, depsInstance, depsLock, initialized, newCount,
                 initCount, imported, containerVars>>

\* Deps() / Deps.get_instance() by a caller that has imported the module
CallDeps(t) ==
  /\ imported
  /\ Begin(t, "Deps", None, None, "new_check")
  /\ UNCHANGED <<registryVars, depsClassVars, containerVars>>

\* __new__: `if cls._instance is None` (unlocked)
NewCheck(t) ==
  /\ pc[t] = "new_check"
  /\ Goto(t, IF depsInstance = 0 THEN "new_lock" ELSE "init_check")
  /\ UNCHANGED <<registryVars, depsClassVars, containerVars, frame>>

\* __new__: `with cls._lock`
NewLock(t) ==
  /\ pc[t] = "new_lock"
  /\ depsLock = None
  /\ depsLock' = t
  /\ Goto(t, "new_create")
  /\ UNCHANGED <<registryVars, depsInstance, initialized, newCount, initCount,
                 importer, imported, containerVars, frame>>

\* __new__: second check, object creation, release of the lock
NewCreate(t) ==
  /\ pc[t] = "new_create"
  /\ IF depsInstance = 0
     THEN /\ newCount' = newCount + 1
          /\ depsInstance' = newCount + 1
          /\ initialized' = FALSE
     ELSE UNCHANGED <<newCount, depsInstance, initialized>>
  /\ depsLock' = None
  /\ Goto(t, "init_check")
  /\ UNCHANGED <<registryVars, initCount, importer, imported, containerVars, frame>>

\* __init__: `if self._initialized: return`
AlreadyInitializedUnchecked == FALSE
AlreadyInitialized == initialized

InitCheck(t) ==
  /\ pc[t] = "init_check"
  /\ Goto(t, IF AlreadyInitialized THEN "deps_ret" ELSE "init_body")
  /\ UNCHANGED <<registryVars, depsClassVars, containerVars, frame>>

\* __init__ lines 75-83: fresh cache, unset selections, _initialized = True
InitBody(t) ==
  /\ pc[t] = "init_body"
  /\ instances' = <<>>
  /\ selections' = NoSelections
  /\ initialized' = TRUE
  /\ initCount' = initCount + 1
  /\ Goto(t, "init_discover")
  /\ UNCHANGED <<registryVars, depsInstance, depsLock, newCount, importer,
                 imported, lazy, objs, serial, frame>>

\* __init__ line 86, _auto_register: auto-discovery; a module whose import
\* fails is skipped
InitDiscover(t) ==
  /\ pc[t] = "init_discover"
  /\ \E failing \in FailingChoices :
       components' = AutoDiscover(components, DiscoveredModules, failing)
  /\ Goto(t, "deps_ret")
  /\ UNCHANGED <<lazy_imports, loaderCalls, depsClassVars, containerVars, frame>>

\* the caller receives the container; the import of the module is complete
\* once line 329 has its value
DepsRet(t) ==
  /\ pc[t] = "deps_ret"
  /\ imported' = (imported \/ frame[t].op = "import")
  /\ Return(t)
  /\ UNCHANGED <<registryVars, depsInstance, depsLock, initialized, newCount,
                 initCount, importer, containerVars>>

\* --------------------------------------- Deps.get_detector / analyzer / config
\* lines 129-137: the name a get resolves to; None when there is no selection
\* and the registry has no default (the call then raises)
ResolveName(comps, lz, sels, cat, arg) ==
  IF arg # None THEN arg
  ELSE IF sels[cat] # None THEN sels[cat]
  ELSE RegistryGetDefault(comps, lz, cat)     \* name = cls.__name__

CallGet(t, cat, arg) ==
  /\ imported
  /\ Begin(t, "get", cat, arg, "get_resolve")
  /\ UNCHANGED <<registryVars, depsClassVars, containerVars>>

GetResolve(t) ==
  /\ pc[t] = "get_resolve"
  /\ LET cat == frame[t].cat
         arg == frame[t].arg
         viaDefault == arg = None /\ selections[cat] = None
         dn == DefaultName(components, cat)
         name == ResolveName(components, lazy_imports, selections, cat, arg)
     IN /\ IF viaDefault /\ dn # None
           THEN /\ components' = RegistryGetComps(components, lazy_imports, cat, dn)
                /\ loaderCalls' = RegistryGetLoads(components, lazy_imports,
                                                   loaderCalls, cat, dn)
           ELSE UNCHANGED <<components, loaderCalls>>
        /\ IF name = None
           THEN Raise(t)
           ELSE /\ frame' = [frame EXCEPT ![t].name = name]
                /\ Goto(t, "get_check")
  /\ UNCHANGED <<lazy_imports, depsClassVars, containerVars>>

\* `key in self._instances`
IsCachedNever(insts, key) == FALSE
IsCached(insts, key) == HandleOf(insts, key) # NoId

\* `if key not in self._instances`
GetCheck(t) ==
  /\ pc[t] = "get_check"
  /\ Goto(t, IF IsCached(instances, InstanceKey(frame[t].cat, frame[t].name))
             THEN "get_lookup" ELSE "get_insert")
  /\ UNCHANGED <<registryVars, depsClassVars, containerVars, frame>>

\* `self._instances[key] = self._create_lazy_instance(category, name)`
GetInsert(t) ==
  /\ pc[t] = "get_insert"
  /\ Cardinality(DOMAIN lazy) < MaxHandles
  /\ LET key == InstanceKey(frame[t].cat, frame[t].name)
         h == FreshHandle(lazy, key)
     IN /\ lazy' = (h :> [inst |-> NoId, lock |-> None]) @@ lazy
        /\ instances' = PutHandle(instances, key, h)
  /\ Goto(t, "get_lookup")
  /\ UNCHANGED <<registryVars, depsClassVars, selections, objs, serial, frame>>

\* `self._instances[key]` of the return statement
GetLookup(t) ==
  /\ pc[t] = "get_lookup"
  /\ LET h == HandleOf(instances, InstanceKey(frame[t].cat, frame[t].name))
     IN IF h = NoId
        THEN Raise(t)                            \* KeyError
        ELSE /\ frame' = [frame EXCEPT ![t].h = h]
             /\ Goto(t, "lazy_check")
  /\ UNCHANGED <<registryVars, depsClassVars, containerVars>>

\* ------------------------------------------------------- LazyInstance.get
\* `if self._instance is None` (unlocked)
LazyCheck(t) ==
  /\ pc[t] = "lazy_check"
  /\ frame' = [frame EXCEPT ![t].held0 = lazy[frame[t].h].inst]
  /\ Goto(t, IF lazy[frame[t].h].inst = NoId THEN "lazy_lock" ELSE "lazy_ret")
  /\ UNCHANGED <<registryVars, depsClassVars, containerVars>>

\* `with self._lock`
LazyLock(t) ==
  /\ pc[t] = "lazy_lock"
  /\ lazy[frame[t].h].lock = None
  /\ lazy' = [lazy EXCEPT ![frame[t].h].lock = t]
  /\ Goto(t, "lazy_make")
  /\ UNCHANGED <<registryVars, depsClassVars, instances, selections, objs,
                 serial, frame>>

\* second check under the lock
MustConstructNever(h) == FALSE
MustConstruct(h) == lazy[h].inst = NoId

\* the value get() leaves in the handle when the factory built instance id
Published(id) == id

\* `if self._instance is None: self._instance = self._factory()`, with the
\* factory of _create_lazy_instance; the lock is released on every way out
LazyMake(t) ==
  /\ pc[t] = "lazy_make"
  /\ LET h == frame[t].h
         cat == h[1]
         name == h[2]
         cls == RegistryGet(components, lazy_imports, cat, name)
     IN IF MustConstruct(h)
        THEN /\ components' = RegistryGetComps(components, lazy_imports, cat, name)
             /\ loaderCalls' = RegistryGetLoads(components, lazy_imports,
                                                loaderCalls, cat, name)
             /\ IF FactoryRaises(components, lazy_imports, cat, name)
                THEN /\ lazy' = [lazy EXCEPT ![h].lock = None]
                     /\ frame' = [frame EXCEPT ![t].err = TRUE, ![t].inv = TRUE]
                     /\ Goto(t, "raised")
                     /\ UNCHANGED <<objs, serial>>
                ELSE /\ Built(serial) < MaxInst
                     /\ \E gpuOK \in BOOLEAN, cpuOK \in BOOLEAN :
                          objs' = (FreshObject(serial, KeyOf(h)) :>
                                     NewObject(cat, name, cls, gpuOK, cpuOK)) @@ objs
                     /\ serial' = (KeyOf(h) :> (SerialOf(serial, KeyOf(h)) + 1))
                                     @@ serial
                     /\ lazy' = [lazy EXCEPT
                                   ![h].inst = Published(FreshObject(serial, KeyOf(h))),
                                   ![h].lock = None]
                     /\ frame' = [frame EXCEPT ![t].inv = TRUE]
                     /\ Goto(t, "lazy_ret")
        ELSE /\ lazy' = [lazy EXCEPT ![h].lock = None]
             /\ Goto(t, "lazy_ret")
             /\ UNCHANGED <<components, loaderCalls, objs, serial, frame>>
  /\ UNCHANGED <<lazy_imports, depsClassVars, instances, selections>>

\* `return self._instance`: the caller of get receives Returned(t)
Returned(t) == lazy[frame[t].h].inst

LazyRet(t) ==
  /\ pc[t] = "lazy_ret"
  /\ Return(t)
  /\ UNCHANGED <<registryVars, depsClassVars, containerVars>>

\* ------------------------------------------------------------ Registry.get
CallRGet(t, cat, name) ==
  /\ imported
  /\ Begin(t, "rget", cat, name, "rget_check")
  /\ UNCHANGED <<registryVars, depsClassVars, containerVars>>

\* lines 134-136: is the entry deferred and still unresolved
RGetCheck(t) ==
  /\ pc[t] = "rget_check"
  /\ Goto(t, IF NeedsLoad(components, lazy_imports, frame[t].cat, frame[t].arg)
             THEN "rget_load" ELSE "rget_ret")
  /\ UNCHANGED <<registryVars, depsClassVars, containerVars, frame>>

\* line 138: component_info.cls = self._lazy_imports[key](); the write goes
\* to the ComponentInfo read at line 135, which a registration made since
\* then has replaced in the table (frame.stale)
RGetLoad(t) ==
  /\ pc[t] = "rget_load"
  /\ LET cat == frame[t].cat
         name == frame[t].arg
         i == Find(components, cat, name)
     IN /\ loaderCalls' = [loaderCalls EXCEPT ![Key(cat, name)] = @ + 1]
        /\ IF frame[t].stale \/ i = 0
           THEN UNCHANGED components
           ELSE components' = [components EXCEPT ![cat][i].cls =
                                 lazy_imports[Key(cat, name)]]
  /\ Goto(t, "rget_ret")
  /\ UNCHANGED <<lazy_imports, depsClassVars, containerVars, frame>>

\* lines 140-141: the caller of Registry.get receives RGetReturned(t)
RGetReturned(t) ==
  LET i == Find(components, frame[t].cat, frame[t].arg)
  IN IF i = 0 THEN None ELSE components[frame[t].cat][i].cls

RGetRet(t) ==
  /\ pc[t] = "rget_ret"
  /\ Return(t)
  /\ UNCHANGED <<registryVars, depsClassVars, containerVars>>

\* a registration replaces the ComponentInfo of (cat, name): calls that hold
\* the old one between lines 135 and 138 now hold a stale object
MarkStale(fr, who, cat, name) ==
  [u \in Threads |->
     IF u = who THEN NoFrame
     ELSE IF pc[u] = "rget_load" /\ fr[u].cat = cat /\ fr[u].arg = name
     THEN [fr[u] EXCEPT !.stale = TRUE] ELSE fr[u]]

\* ------------------------------------------------- registration by callers
CallRegister(t, cat, name, is_default) ==
  /\ imported
  /\ Begin(t, IF is_default THEN "register_default" ELSE "register", cat, name,
           "register")
  /\ UNCHANGED <<registryVars, depsClassVars, containerVars>>

\* Deps.register_detector / register_analyzer / register_config
Register(t) ==
  /\ pc[t] = "register"
  /\ components' = RegistryRegister(components, frame[t].cat, frame[t].arg,
                                    CategoryClass(frame[t].cat),
                                    frame[t].op = "register_default")
  /\ frame' = MarkStale(frame, t, frame[t].cat, frame[t].arg)
  /\ Goto(t, "idle")
  /\ UNCHANGED <<lazy_imports, loaderCalls, depsClassVars, containerVars>>

CallRegisterLazy(t, cat, name, is_default) ==
  /\ imported
  /\ Begin(t, IF is_default THEN "register_default" ELSE "register", cat, name,
           "register_lazy")
  /\ UNCHANGED <<registryVars, depsClassVars, containerVars>>

\* Registry.register_lazy
RegisterLazy(t) ==
  /\ pc[t] = "register_lazy"
  /\ LET cat == frame[t].cat
         name == frame[t].arg
     IN /\ lazy_imports' = (Key(cat, name) :> CategoryClass(cat)) @@ lazy_imports
        /\ loaderCalls' = (Key(cat, name) :> 0) @@ loaderCalls
        /\ components' = PutInfo(components, cat, name, None,
                                 frame[t].op = "register_default")
        /\ frame' = MarkStale(frame, t, cat, name)
  /\ Goto(t, "idle")
  /\ UNCHANGED <<depsClassVars, containerVars>>

\* ---------------------------------------------------------- Deps.select_*
CallSelect(t, cat, name) ==
  /\ imported
  /\ Begin(t, "select", cat, name, "select")
  /\ UNCHANGED <<registryVars, depsClassVars, containerVars>>

SelectNeverFails(comps, lz, cat, name) == FALSE
SelectFails(comps, lz, cat, name) == RegistryGet(comps, lz, cat, name) = None

SelectEvicting(t) ==
  /\ pc[t] = "select"
  /\ LET cat == frame[t].cat
         name == frame[t].arg
     IN /\ components' = RegistryGetComps(components, lazy_imports, cat, name)
        /\ loaderCalls' = RegistryGetLoads(components, lazy_imports, loaderCalls,
                                           cat, name)
        /\ IF SelectFails(components, lazy_imports, cat, name)
           THEN /\ UNCHANGED <<selections, instances>>
                /\ Raise(t)
           ELSE /\ selections' = [selections EXCEPT ![cat] = name]
                /\ instances' = [k \in {x \in DOMAIN instances : x[1] # cat} |->
                                   instances[k]]
                /\ Finish(t)
  /\ UNCHANGED <<lazy_imports, depsClassVars, lazy, objs, serial>>

Select(t) ==
  /\ pc[t] = "select"
  /\ LET cat == frame[t].cat
         name == frame[t].arg
     IN /\ components' = RegistryGetComps(components, lazy_imports, cat, name)
        /\ loaderCalls' = RegistryGetLoads(components, lazy_imports, loaderCalls,
                                           cat, name)
        /\ IF SelectFails(components, lazy_imports, cat, name)
           THEN /\ UNCHANGED selections
                /\ Raise(t)
           ELSE /\ selections' = [selections EXCEPT ![cat] = name]
                /\ Finish(t)
  /\ UNCHANGED <<lazy_imports, depsClassVars, instances, lazy, objs, serial>>

\* ------------------------------------------- Deps.reset_instance / reset_all
\* LazyInstance.reset on the handles hs
LazyResetKeeps(lz, hs) == lz
LazyReset(lz, hs) ==
  [h \in DOMAIN lz |-> IF h \in hs THEN [lz[h] EXCEPT !.inst = NoId] ELSE lz[h]]

\* the instances ids are dropped by a reset: nothing refers to them any more
Dropped(os, ids) == [i \in DOMAIN os \ ids |-> os[i]]

\* the instances ids are released by cleanup; those an earlier cleanup
\* released are forgotten
Released(os, ids) ==
  [i \in {x \in DOMAIN os : os[x].fate = "live"} |->
     IF i \in ids THEN [os[i] EXCEPT !.fate = "cleaned"] ELSE os[i]]

HeldBy(lz, hs) == {lz[h].inst : h \in hs} \ {NoId}
CachedHandles(insts) == {insts[k] : k \in DOMAIN insts}

CallResetInstance(t, cat, name) ==
  /\ imported
  /\ Begin(t, "reset_instance", cat, name, "reset_instance")
  /\ UNCHANGED <<registryVars, depsClassVars, containerVars>>

ResetTargets(insts, cat, name) ==
  IF HandleOf(insts, InstanceKey(cat, name)) = NoId THEN {}
  ELSE {HandleOf(insts, InstanceKey(cat, name))}

ResetInstance(t) ==
  /\ pc[t] = "reset_instance"
  /\ LET hs == ResetTargets(instances, frame[t].cat, frame[t].arg)
     IN /\ \A x \in hs : lazy[x].lock = None
        /\ lazy' = LazyReset(lazy, hs)
        /\ objs' = Dropped(objs, HeldBy(lazy, hs))
  /\ Finish(t)
  /\ UNCHANGED <<registryVars, depsClassVars, instances, selections, serial>>

CallResetAll(t) ==
  /\ imported
  /\ Begin(t, "reset_all", None, None, "reset_all")
  /\ UNCHANGED <<registryVars, depsClassVars, containerVars>>

ResetAll(t) ==
  /\ pc[t] = "reset_all"
  /\ LET hs == CachedHandles(instances)
     IN /\ \A x \in hs : lazy[x].lock = None
        /\ lazy' = LazyReset(lazy, hs)
        /\ objs' = Dropped(objs, HeldBy(lazy, hs))
  /\ Finish(t)
  /\ UNCHANGED <<registryVars, depsClassVars, instances, selections, serial>>

\* ------------------------------------------------------------ Deps.cleanup
\* the loop of Deps.cleanup over self._instances.items(): close() is called
\* on every constructed instance that has one; an exception it raises
\* (instances in raising) is caught and printed
RECURSIVE CloseAllUncaught(_, _, _, _)
CloseAllUncaught(os, hs, lz, raising) ==
  IF hs = {} THEN os
  ELSE LET h == CHOOSE x \in hs : TRUE
           id == lz[h].inst
       IN IF id # NoId /\ HasClose(os[id].cls)
          THEN IF id \in raising
               THEN [os EXCEPT ![id].closes = @ + 1]
               ELSE CloseAllUncaught([os EXCEPT ![id].closes = @ + 1], hs \ {h},
                                     lz, raising)
          ELSE CloseAllUncaught(os, hs \ {h}, lz, raising)

RECURSIVE CloseAll(_, _, _, _)
CloseAll(os, hs, lz, raising) ==
  IF hs = {} THEN os
  ELSE LET h == CHOOSE x \in hs : TRUE
           id == lz[h].inst
       IN IF id # NoId /\ HasClose(os[id].cls)
          THEN CloseAll([os EXCEPT ![id].closes = @ + 1], hs \ {h}, lz, raising)
          ELSE CloseAll(os, hs \ {h}, lz, raising)

\* self._instances.clear()
Cleared(insts) == <<>>

\* the LazyInstance objects left once the cache is cleared: those a running
\* call still refers to; without one they are all garbage
Unreferenced(lz) == IF \A u \in Threads : frame[u].h = NoId THEN <<>> ELSE lz

\* cleanup is called; raising are the cached instances whose close() raises
CallCleanup(t, raising) ==
  /\ imported
  /\ raising \subseteq HeldBy(lazy, CachedHandles(instances))
  /\ pc[t] = "idle"
  /\ frame' = [frame EXCEPT ![t] = [NoFrame EXCEPT !.op = "cleanup",
                                                    !.raising = raising]]
  /\ Goto(t, "cleanup")
  /\ UNCHANGED <<registryVars, depsClassVars, containerVars>>

Cleanup(t) ==
  /\ pc[t] = "cleanup"
  /\ \A x \in CachedHandles(instances) : lazy[x].lock = None
  /\ objs' = Released(CloseAll(objs, CachedHandles(instances), lazy, frame[t].raising),
                      HeldBy(lazy, CachedHandles(instances)))
  /\ instances' = Cleared(instances)
  /\ lazy' = Unreferenced(lazy)
  /\ Finish(t)
  /\ UNCHANGED <<registryVars, depsClassVars, selections, serial>>

\* ----------------------------------------------------------- specifications
\* one caller: every call runs to completion before the next starts
Next ==
  \E t \in SeqThreads :
    /\ UNCHANGED <<budget, directVars>>
    /\ \/ Import(t) \/ CallDeps(t)
       \/ NewCheck(t) \/ NewLock(t) \/ NewCreate(t)
       \/ InitCheck(t) \/ InitBody(t) \/ InitDiscover(t) \/ DepsRet(t)
       \/ \E cat \in CallCategories : \E arg \in ArgNames(cat) \cup {None} :
            CallGet(t, cat, arg)
       \/ GetResolve(t) \/ GetCheck(t) \/ GetInsert(t) \/ GetLookup(t)
       \/ LazyCheck(t) \/ LazyLock(t) \/ LazyMake(t) \/ LazyRet(t)
       \/ \E cat \in CallCategories : \E name \in RegNames(cat) : \E d \in RegDefaults :
            CallRegister(t, cat, name, d)
       \/ Register(t)
       \/ \E cat \in CallCategories : \E name \in ArgNames(cat) : CallSelect(t, cat, name)
       \/ Select(t)
       \/ \E cat \in CallCategories : \E name \in ArgNames(cat) :
            CallResetInstance(t, cat, name)
       \/ ResetInstance(t)
       \/ CallResetAll(t) \/ ResetAll(t)
       \/ \E raising \in SUBSET DOMAIN objs : CallCleanup(t, raising)
       \/ Cleanup(t)
       \/ Ret(t) \/ Unwind(t)

Spec == Init /\ [][Next]_vars

\* concurrent callers: each thread makes up to MaxCalls calls, and the steps
\* of the calls interleave; the calls are those the first-access races are
\* about (container construction, container get, registry get on a
\* deferred entry)
InitRace ==
  /\ Boot
  /\ budget = [t \in Threads |-> MaxCalls]

Spend(t) ==
  /\ budget[t] > 0
  /\ budget' = [budget EXCEPT ![t] = @ - 1]

NextRace ==
  \E t \in Threads :
    \/ /\ UNCHANGED <<budget, directVars>>
       /\ \/ Import(t)
          \/ NewCheck(t) \/ NewLock(t) \/ NewCreate(t)
          \/ InitCheck(t) \/ InitBody(t) \/ InitDiscover(t) \/ DepsRet(t)
          \/ GetResolve(t) \/ GetCheck(t) \/ GetInsert(t) \/ GetLookup(t)
          \/ LazyCheck(t) \/ LazyLock(t) \/ LazyMake(t) \/ LazyRet(t)
          \/ RGetCheck(t) \/ RGetLoad(t) \/ RGetRet(t)
          \/ RegisterLazy(t)
          \/ Unwind(t)
    \/ /\ Spend(t)
       /\ UNCHANGED directVars
       /\ \/ CallDeps(t)
          \/ \E cat \in RaceCategories : \E arg \in ArgNames(cat) \cup {None} :
               CallGet(t, cat, arg)
          \/ \E cat \in RaceCategories : \E name \in RegNames(cat) :
               CallRGet(t, cat, name)
          \/ \E cat \in RaceCategories : \E name \in RegNames(cat) :
               \E d \in RegDefaults : CallRegisterLazy(t, cat, name, d)

SpecRace == InitRace /\ [][NextRace]_vars

\* ------------------------------------------------- direct use of the registry
\* the registry singleton, used by a caller without going through the
\* container; the package has been imported, so auto-discovery has run once
DirectCategories == {"detector", "analyzer", "pose"}

Imported ==
  /\ lazy_imports = <<>>
  /\ loaderCalls = <<>>
  /\ depsInstance = 1
  /\ depsLock = None
  /\ initialized = TRUE
  /\ newCount = 1
  /\ initCount = 1
  /\ importer = "t1"
  /\ imported = TRUE
  /\ instances = <<>>
  /\ selections = NoSelections
  /\ lazy = <<>>
  /\ objs = <<>>
  /\ serial = <<>>
  /\ pc = [t \in Threads |-> "idle"]
  /\ frame = [t \in Threads |-> NoFrame]
  /\ budget = [t \in Threads |-> 0]
  /\ app = [detector |-> NoId, used |-> NoId, changed |-> None]

InitRegistry ==
  /\ Imported
  /\ \E failing \in FailingChoices :
       components = AutoDiscover(NoComponents, DiscoveredModules, failing)
  /\ rcall = NoCall
  /\ calc = NoCalc
  /\ conf = NewConfig
  /\ cio = NoConfigCall

Called(op, cat, name, res) ==
  [NoCall EXCEPT !.op = op, !.cat = cat, !.name = name, !.res = res]

\* Registry.register
RegRegister(cat, name, is_default) ==
  /\ components' = RegistryRegister(components, cat, name, CategoryClass(cat),
                                    is_default)
  /\ rcall' = Called("register", cat, name, None)
  /\ UNCHANGED <<lazy_imports, loaderCalls>>

\* Registry.register_lazy
RegRegisterLazy(cat, name, is_default) ==
  /\ lazy_imports' = (Key(cat, name) :> CategoryClass(cat)) @@ lazy_imports
  /\ loaderCalls' = (Key(cat, name) :> 0) @@ loaderCalls
  /\ components' = PutInfo(components, cat, name, None, is_default)
  /\ rcall' = Called("register_lazy", cat, name, None)

\* Registry.get
RegGet(cat, name) ==
  /\ components' = RegistryGetComps(components, lazy_imports, cat, name)
  /\ loaderCalls' = RegistryGetLoads(components, lazy_imports, loaderCalls, cat, name)
  /\ rcall' = Called("get", cat, name, RegistryGet(components, lazy_imports, cat, name))
  /\ UNCHANGED lazy_imports

\* Registry.get_default
RegGetDefault(cat) ==
  LET name == DefaultName(components, cat)
  IN /\ components' = RegistryGetComps(components, lazy_imports, cat, name)
     /\ loaderCalls' = RegistryGetLoads(components, lazy_imports, loaderCalls, cat, name)
     /\ rcall' = Called("get_default", cat, None,
                        RegistryGetDefault(components, lazy_imports, cat))
     /\ UNCHANGED lazy_imports

\* Registry.auto_discover('src.deps'); the modules in failing raise when
\* they are imported or scanned
RegAutoDiscover(failing) ==
  /\ components' = AutoDiscover(components, DiscoveredModules, failing)
  /\ rcall' = [Called("auto_discover", None, None, None) EXCEPT !.failing = failing]
  /\ UNCHANGED <<lazy_imports, loaderCalls>>

\* Registry.clear
RegClear ==
  /\ components' = [c \in DOMAIN components |-> <<>>]
  /\ lazy_imports' = <<>>
  /\ loaderCalls' = <<>>
  /\ rcall' = Called("clear", None, None, None)

\* Registry.list_components: `.copy()` is a new dict that holds the same
\* descriptors; shared tells whether the caller got the registry's own dict
ListComponentsView(comps, cat) ==
  [table |-> CategoryTable(comps, cat), shared |-> cat \in DOMAIN comps]

ListComponents(comps, cat) ==
  [table |-> CategoryTable(comps, cat), shared |-> FALSE]

RegList(cat) ==
  /\ rcall' = Called("list", cat, None, ListComponents(components, cat))
  /\ UNCHANGED <<components, lazy_imports, loaderCalls>>

\* the caller changes the mapping list_components returned: del m[name],
\* m[name] = info
MutateListing ==
  /\ rcall.op = "list"
  /\ \E t2 \in
         LET table == rcall.res.table
         IN {[j \in 1..(Len(table) - 1) |->
                IF j < i THEN table[j] ELSE table[j + 1]] : i \in 1..Len(table)}
            \cup {[table EXCEPT ![i].is_default = ~@] : i \in 1..Len(table)}
            \cup {Append(table, [name |-> n, cls |-> None, is_default |-> TRUE]) :
                     n \in {x \in {"MediaPipe-Heavy", "Extra"} :
                              \A i \in 1..Len(table) : table[i].name # x}} :
       /\ rcall' = [rcall EXCEPT !.op = "mutate", !.res.table = t2]
       /\ IF rcall.res.shared
          THEN components' = [components EXCEPT ![rcall.cat] = t2]
          ELSE UNCHANGED components
  /\ UNCHANGED <<lazy_imports, loaderCalls>>

NextRegistry ==
  /\ UNCHANGED <<depsClassVars, containerVars, pc, frame, budget, calc,
               conf, cio, app>>
  /\ \/ \E cat \in RaceCategories : \E name \in ArgNames(cat) : \E d \in RegDefaults :
          RegRegister(cat, name, d)
     \/ \E cat \in RaceCategories : \E name \in ArgNames(cat) : \E d \in RegDefaults :
          RegRegisterLazy(cat, name, d)
     \/ \E cat \in DirectCategories : \E name \in ArgNames("detector") : RegGet(cat, name)
     \/ \E cat \in DirectCategories : RegGetDefault(cat)
     \/ \E failing \in SUBSET {DiscoveredModules[i] : i \in 1..Len(DiscoveredModules)} :
          RegAutoDiscover(failing)
     \/ RegClear
     \/ \E cat \in DirectCategories : RegList(cat)
     \/ MutateListing

SpecRegistry == InitRegistry /\ [][NextRegistry]_vars

\* concurrent callers of the container after the import: gets of the
\* analyzer, reset_instance and reset_all, their steps interleaving
NextReset ==
  \E t \in Threads :
    /\ UNCHANGED <<budget, directVars>>
    /\ \/ \E arg \in ArgNames("analyzer") \cup {None} : CallGet(t, "analyzer", arg)
       \/ GetResolve(t) \/ GetCheck(t) \/ GetInsert(t) \/ GetLookup(t)
       \/ LazyCheck(t) \/ LazyLock(t) \/ LazyMake(t) \/ LazyRet(t)
       \/ \E name \in ArgNames("analyzer") : CallResetInstance(t, "analyzer", name)
       \/ ResetInstance(t)
       \/ CallResetAll(t) \/ ResetAll(t)
       \/ Ret(t)

SpecReset == InitRegistry /\ [][NextReset]_vars

\* ------------------------------------------------------ the application
\* the application and its window run in one thread, a handler running to
\* its end before the next starts; no registration is deferred here
\* PoseComparisonApp.process_frame: the detector property (the container's
\* get_detector() when _detector is None) and detect on what it gives
ProcessFrame ==
  IF app.detector # NoId
  THEN /\ app' = [app EXCEPT !.used = app.detector]
       /\ UNCHANGED containerVars
  ELSE
    LET name == ResolveName(components, lazy_imports, selections, "detector", None)
        key == InstanceKey("detector", name)
        h == IF IsCached(instances, key) THEN HandleOf(instances, key)
             ELSE FreshHandle(lazy, key)
        lz == IF IsCached(instances, key) THEN lazy
              ELSE (h :> [inst |-> NoId, lock |-> None]) @@ lazy
    IN IF name = None
       THEN UNCHANGED <<app, containerVars>>
       ELSE /\ Cardinality(DOMAIN lz) <= MaxHandles
            /\ instances' = PutHandle(instances, key, h)
            /\ UNCHANGED selections
            /\ IF lz[h].inst # NoId
               THEN /\ lazy' = lz
                    /\ app' = [app EXCEPT !.detector = lz[h].inst,
                                          !.used = lz[h].inst]
                    /\ UNCHANGED <<objs, serial>>
               ELSE IF FactoryRaises(components, lazy_imports, "detector", name)
               THEN /\ lazy' = lz
                    /\ UNCHANGED <<app, objs, serial>>
               ELSE /\ Built(serial) < MaxInst
                    /\ \E gpuOK \in BOOLEAN, cpuOK \in BOOLEAN :
                         objs' = (FreshObject(serial, key) :>
                                    NewObject("detector", name,
                                              RegistryGet(components, lazy_imports,
                                                          "detector", name),
                                              gpuOK, cpuOK)) @@ objs
                    /\ serial' = (key :> (SerialOf(serial, key) + 1)) @@ serial
                    /\ lazy' = [lz EXCEPT ![h].inst = FreshObject(serial, key)]
                    /\ app' = [app EXCEPT !.detector = FreshObject(serial, key),
                                          !.used = FreshObject(serial, key)]

\* MainWindow._on_model_changed: select_detector then reset_instance; an
\* exception of select_detector ends the handler with a warning
OnModelChanged(model_name) ==
  IF SelectFails(components, lazy_imports, "detector", model_name)
  THEN UNCHANGED <<app, containerVars>>
  ELSE LET hs == ResetTargets(instances, "detector", model_name)
       IN /\ selections' = [selections EXCEPT !["detector"] = model_name]
          /\ lazy' = LazyReset(lazy, hs)
          /\ objs' = Dropped(objs, HeldBy(lazy, hs))
          /\ app' = [app EXCEPT !.used = NoId, !.changed = model_name]
          /\ UNCHANGED <<instances, serial>>

NextApp ==
  /\ UNCHANGED <<depsClassVars, pc, frame, budget, calc, conf, cio>>
  /\ \/ ProcessFrame /\ UNCHANGED <<registryVars, rcall>>
     \/ /\ \E model_name \in ArgNames("detector") : OnModelChanged(model_name)
        /\ UNCHANGED <<registryVars, rcall>>
     \/ /\ \E name \in ArgNames("detector") : \E d \in RegDefaults :
             RegRegister("detector", name, d)
        /\ UNCHANGED <<containerVars, app>>

SpecApp == InitRegistry /\ [][NextApp]_vars

\* ------------------------------------- functions of detector and analyzers
\* an Optional value: <<>> is None, <<v>> is the value v; angles and
\* thresholds are whole degrees
Absent == <<>>
Some(v) == <<v>>
AngleValues == {Absent} \cup {Some(v) : v \in {0, 85, 100, 110, 115, 116, 120}}
\* Config.ANGLE_THRESHOLD when analyzer.py is imported: the default of the
\* legacy function's threshold parameter
ANGLE_THRESHOLD == 15

Abs(x) == IF x < 0 THEN 0 - x ELSE x

\* PoseAnalyzer.compare_angles (analyzer.py)
LegacyCompareAngles(angle1, angle2, threshold) ==
  LET th == IF threshold = Absent THEN ANGLE_THRESHOLD ELSE threshold[1]
  IN IF angle1 = Absent \/ angle2 = Absent THEN <<TRUE, 0>>
     ELSE <<Abs(angle1[1] - angle2[1]) <= th, Abs(angle1[1] - angle2[1])>>

\* DefaultAnalyzer.compare_angles; angle_threshold is self._angle_threshold
CompareAnglesStrict(angle1, angle2, threshold, angle_threshold) ==
  LET th == IF threshold = Absent THEN angle_threshold ELSE threshold[1]
  IN IF angle1 = Absent \/ angle2 = Absent THEN <<TRUE, 0>>
     ELSE <<Abs(angle1[1] - angle2[1]) < th, Abs(angle1[1] - angle2[1])>>

CompareAnglesAbove(angle1, angle2, threshold, angle_threshold) ==
  LET th == IF threshold = Absent THEN angle_threshold ELSE threshold[1]
  IN IF angle1 = Absent \/ angle2 = Absent THEN <<TRUE, 0>>
     ELSE <<Abs(angle1[1] - angle2[1]) > th, Abs(angle1[1] - angle2[1])>>

CompareAngles(angle1, angle2, threshold, angle_threshold) ==
  LET th == IF threshold = Absent THEN angle_threshold ELSE threshold[1]
  IN IF angle1 = Absent \/ angle2 = Absent THEN <<TRUE, 0>>
     ELSE <<Abs(angle1[1] - angle2[1]) <= th, Abs(angle1[1] - angle2[1])>>

\* a result not yet returned is <<>>, the result r is <<r>>
Pending == <<>>

InitCalc ==
  /\ Imported
  /\ components = AutoDiscover(NoComponents, DiscoveredModules, {})
  /\ rcall = NoCall
  /\ conf = NewConfig
  /\ cio = NoConfigCall
  \* one call: initialize() on a detector built with use_gpu, whose GPU and
  \* CPU attempts succeed or not; or compare_angles with the threshold
  \* argument (Absent when the caller leaves it out) on an analyzer whose
  \* _angle_threshold is angle_threshold
  /\ calc \in
       {[fn |-> "initialize", args |-> [use_gpu |-> g, gpuOK |-> a, cpuOK |-> b],
         out |-> [initialize |-> Pending]] :
          g \in BOOLEAN, a \in BOOLEAN, b \in BOOLEAN}
       \cup
       {[fn |-> "compare_angles",
         args |-> [angle1 |-> a, angle2 |-> b, threshold |-> th,
                   angle_threshold |-> it],
         out |-> [legacy |-> Pending, default |-> Pending]] :
          a \in AngleValues, b \in AngleValues,
          th \in {Absent} \cup {Some(v) : v \in {0, 15, 16}}, it \in {15, 30}}

\* detector.initialize() on a detector built with use_gpu
RunInitialize ==
  /\ calc.fn = "initialize"
  /\ calc.out.initialize = Pending
  /\ calc' = [calc EXCEPT !.out.initialize =
                 Some(Initialize(calc.args.use_gpu, calc.args.gpuOK,
                                 calc.args.cpuOK, 0))]

RunLegacyCompare ==
  /\ calc.fn = "compare_angles"
  /\ calc.out.legacy = Pending
  /\ calc' = [calc EXCEPT !.out.legacy =
                 Some(LegacyCompareAngles(calc.args.angle1, calc.args.angle2,
                                          calc.args.threshold))]

RunDefaultCompare ==
  /\ calc.fn = "compare_angles"
  /\ calc.out.default = Pending
  /\ calc' = [calc EXCEPT !.out.default =
                 Some(CompareAngles(calc.args.angle1, calc.args.angle2,
                                    calc.args.threshold, calc.args.angle_threshold))]

NextCalc ==
  /\ UNCHANGED <<registryVars, depsClassVars, containerVars, pc, frame, budget,
                 rcall, conf, cio, app>>
  /\ \/ RunInitialize
     \/ RunLegacyCompare
     \/ RunDefaultCompare

SpecCalc == InitCalc /\ [][NextCalc]_vars

\* ------------------------------------------------- poses and their angles
\* constants.py: (joint, point1, point2, name), joints by PoseLandmark value;
\* the names of angles and limbs, Chinese in the source, are given in English
\* in the order of the source's tables
ANGLE_JOINTS ==
  << <<11, 13, 23, "left_shoulder_angle">>, <<12, 14, 24, "right_shoulder_angle">>,
     <<13, 11, 15, "left_elbow_angle">>, <<14, 12, 16, "right_elbow_angle">>,
     <<23, 25, 11, "left_hip_angle">>, <<24, 26, 12, "right_hip_angle">>,
     <<25, 23, 27, "left_knee_angle">>, <<26, 24, 28, "right_knee_angle">> >>
AngleNames == {ANGLE_JOINTS[i][4] : i \in 1..Len(ANGLE_JOINTS)}

LIMB_TO_ANGLES ==
  [limb \in {"left_upper_arm", "left_forearm", "right_upper_arm", "right_forearm", "left_thigh", "left_shin",
             "right_thigh", "right_shin", "left_torso", "right_torso", "torso_top", "torso_bottom"} |->
     CASE limb = "left_upper_arm" -> {"left_shoulder_angle", "left_elbow_angle"}
       [] limb = "left_forearm" -> {"left_elbow_angle"}
       [] limb = "right_upper_arm" -> {"right_shoulder_angle", "right_elbow_angle"}
       [] limb = "right_forearm" -> {"right_elbow_angle"}
       [] limb = "left_thigh" -> {"left_hip_angle", "left_knee_angle"}
       [] limb = "left_shin" -> {"left_knee_angle"}
       [] limb = "right_thigh" -> {"right_hip_angle", "right_knee_angle"}
       [] limb = "right_shin" -> {"right_knee_angle"}
       [] limb = "left_torso" -> {"left_shoulder_angle", "left_hip_angle"}
       [] limb = "right_torso" -> {"right_shoulder_angle", "right_hip_angle"}
       [] OTHER -> {}]

\* an angle map is a dict from names to an angle or None: a function whose
\* domain is the dict's keys; d.get(name) is None for a key it does not hold
DictGetZero(d, name) == IF name \in DOMAIN d THEN d[name] ELSE Some(0)

DictGet(d, name) == IF name \in DOMAIN d THEN d[name] ELSE Absent

\* calculate_angle(p1, p2, p3), the angle at p2 in whole degrees, for points
\* whose difference vectors lie along the axes or the diagonals (the points
\* of a unit square): arccos of the normalised dot product is then one of
\* 0, 45, 90, 135, 180; a ray of length zero gives 0.0
CalculateAngle(p1, p2, p3) ==
  LET v1 == <<p1.x - p2.x, p1.y - p2.y>>
      v2 == <<p3.x - p2.x, p3.y - p2.y>>
      dot == v1[1] * v2[1] + v1[2] * v2[2]
      cross == v1[1] * v2[2] - v1[2] * v2[1]
  IN IF v1 = <<0, 0>> \/ v2 = <<0, 0>> THEN 0
     ELSE IF cross = 0 THEN (IF dot > 0 THEN 0 ELSE 180)
     ELSE IF dot = 0 THEN 90
     ELSE IF dot > 0 THEN 45 ELSE 135

\* DefaultAnalyzer.extract_pose_angles; landmarks is indexed by PoseLandmark
\* value, visibility is in hundredths
ExtractPoseAnglesAtHalf(landmarks) ==
  [name \in AngleNames |->
     LET row == ANGLE_JOINTS[CHOOSE i \in 1..Len(ANGLE_JOINTS) :
                               ANGLE_JOINTS[i][4] = name]
         p_joint == landmarks[row[1]]
         p1 == landmarks[row[2]]
         p2 == landmarks[row[3]]
     IN IF p_joint.visibility >= 50 /\ p1.visibility >= 50 /\ p2.visibility >= 50
        THEN Some(CalculateAngle(p1, p_joint, p2))
        ELSE Absent]

ExtractPoseAngles(landmarks) ==
  [name \in AngleNames |->
     LET row == ANGLE_JOINTS[CHOOSE i \in 1..Len(ANGLE_JOINTS) :
                               ANGLE_JOINTS[i][4] = name]
         p_joint == landmarks[row[1]]
         p1 == landmarks[row[2]]
         p2 == landmarks[row[3]]
     IN IF p_joint.visibility > 50 /\ p1.visibility > 50 /\ p2.visibility > 50
        THEN Some(CalculateAngle(p1, p_joint, p2))
        ELSE Absent]

\* DefaultAnalyzer.compare_poses on pose1.angles and pose2.angles; the match
\* ratio sum(valid_angles) / len(valid_angles) is kept as the pair
\* <<sum, len>>, and 0.0 as <<0, 1>>
ComparePosesCountingAll(angles1, angles2, threshold, angle_threshold) ==
  LET th == IF threshold = Absent THEN Some(angle_threshold) ELSE threshold
      angle_matches ==
        [name \in DOMAIN angles1 |->
           CompareAngles(DictGet(angles1, name), DictGet(angles2, name),
                         th, angle_threshold)[1]]
      limb_matches ==
        [limb_name \in DOMAIN LIMB_TO_ANGLES |->
           IF LIMB_TO_ANGLES[limb_name] = {} THEN TRUE
           ELSE \A angle_name \in LIMB_TO_ANGLES[limb_name] :
                  IF angle_name \in DOMAIN angle_matches
                  THEN angle_matches[angle_name] ELSE TRUE]
      valid_angles == DOMAIN angle_matches
  IN [limbs |-> limb_matches,
      ratio |-> IF valid_angles # {}
                THEN <<Cardinality({n \in valid_angles : angle_matches[n]}),
                       Cardinality(valid_angles)>>
                ELSE <<0, 1>>]

ComparePosesAnyAngle(angles1, angles2, threshold, angle_threshold) ==
  LET th == IF threshold = Absent THEN Some(angle_threshold) ELSE threshold
      angle_matches ==
        [name \in DOMAIN angles1 |->
           CompareAngles(DictGet(angles1, name), DictGet(angles2, name),
                         th, angle_threshold)[1]]
      limb_matches ==
        [limb_name \in DOMAIN LIMB_TO_ANGLES |->
           IF LIMB_TO_ANGLES[limb_name] = {} THEN TRUE
           ELSE \E angle_name \in LIMB_TO_ANGLES[limb_name] :
                  IF angle_name \in DOMAIN angle_matches
                  THEN angle_matches[angle_name] ELSE TRUE]
      valid_angles ==
        {name \in DOMAIN angle_matches : DictGet(angles1, name) # Absent}
  IN [limbs |-> limb_matches,
      ratio |-> IF valid_angles # {}
                THEN <<Cardinality({n \in valid_angles : angle_matches[n]}),
                       Cardinality(valid_angles)>>
                ELSE <<0, 1>>]

ComparePoses(angles1, angles2, threshold, angle_threshold) ==
  LET th == IF threshold = Absent THEN Some(angle_threshold) ELSE threshold
      angle_matches ==
        [name \in DOMAIN angles1 |->
           CompareAngles(DictGet(angles1, name), DictGet(angles2, name),
                         th, angle_threshold)[1]]
      limb_matches ==
        [limb_name \in DOMAIN LIMB_TO_ANGLES |->
           IF LIMB_TO_ANGLES[limb_name] = {} THEN TRUE
           ELSE \A angle_name \in LIMB_TO_ANGLES[limb_name] :
                  IF angle_name \in DOMAIN angle_matches
                  THEN angle_matches[angle_name] ELSE TRUE]
      valid_angles ==
        {name \in DOMAIN angle_matches : DictGet(angles1, name) # Absent}
  IN [limbs |-> limb_matches,
      ratio |-> IF valid_angles # {}
                THEN <<Cardinality({n \in valid_angles : angle_matches[n]}),
                       Cardinality(valid_angles)>>
                ELSE <<0, 1>>]

\* PoseComparisonSystem.compare_poses (system.py): standard_pose is Absent
\* before a reference is loaded, else Some(its angles); compare_angles is the
\* legacy one, called without a threshold
SystemComparePoses(standard_pose, user_angles) ==
  IF standard_pose = Absent THEN [limbs |-> <<>>, ratio |-> <<0, 1>>]
  ELSE
    LET angles1 == standard_pose[1]
        angle_matches ==
          [name \in DOMAIN angles1 |->
             LegacyCompareAngles(DictGet(angles1, name),
                                 DictGet(user_angles, name), Absent)[1]]
        limb_matches ==
          [limb_name \in DOMAIN LIMB_TO_ANGLES |->
             IF LIMB_TO_ANGLES[limb_name] = {} THEN TRUE
             ELSE \A angle_name \in LIMB_TO_ANGLES[limb_name] :
                    IF angle_name \in DOMAIN angle_matches
                    THEN angle_matches[angle_name] ELSE TRUE]
        valid_angles ==
          {name \in DOMAIN angle_matches : DictGet(angles1, name) # Absent}
    IN [limbs |-> limb_matches,
        ratio |-> IF valid_angles # {}
                  THEN <<Cardinality({n \in valid_angles : angle_matches[n]}),
                         Cardinality(valid_angles)>>
                  ELSE <<0, 1>>]

\* DefaultAnalyzer.calculate_similarity_score: the score
\* weighted_similarity / total_weight is kept as the pair of the two, with
\* the similarities exp(-diff^2 / (2 * 30^2)) in thousandths, and 0.0 as
\* <<0, 1>>
CalculateSimilarityScoreOneWhenEmpty(angles1, angles2) ==
  LET similarity(diff) ==
        CASE diff = 0 -> 1000 [] diff = 10 -> 946 [] diff = 20 -> 801
          [] diff = 30 -> 607 [] OTHER -> 0
      both == {name \in DOMAIN angles1 :
                 DictGet(angles1, name) # Absent /\ DictGet(angles2, name) # Absent}
      RECURSIVE Sum(_)
      Sum(names) ==
        IF names = {} THEN 0
        ELSE LET name == CHOOSE n \in names : TRUE
             IN similarity(Abs(angles1[name][1] - angles2[name][1]))
                + Sum(names \ {name})
  IN IF Cardinality(both) > 0 THEN <<Sum(both), Cardinality(both)>>
     ELSE <<1000, 1>>

CalculateSimilarityScore(angles1, angles2) ==
  LET similarity(diff) ==
        CASE diff = 0 -> 1000 [] diff = 10 -> 946 [] diff = 20 -> 801
          [] diff = 30 -> 607 [] OTHER -> 0
      both == {name \in DOMAIN angles1 :
                 DictGet(angles1, name) # Absent /\ DictGet(angles2, name) # Absent}
      RECURSIVE Sum(_)
      Sum(names) ==
        IF names = {} THEN 0
        ELSE LET name == CHOOSE n \in names : TRUE
             IN similarity(Abs(angles1[name][1] - angles2[name][1]))
                + Sum(names \ {name})
  IN IF Cardinality(both) > 0 THEN <<Sum(both), Cardinality(both)>>
     ELSE <<0, 1>>

\* the angle maps callers pass: two names hold any of no key, None, 100.0 or
\* 120.0, each of the other names the same one of these
InitPose ==
  LET free == {"left_shoulder_angle", "left_elbow_angle"}
      values == {Absent, Some(100), Some(120)}
      AngleMaps ==
        UNION {
          UNION {
            {[name \in keys |-> IF name \in free THEN f[name] ELSE rest] :
               f \in [keys \cap free -> values], rest \in values} :
            keys \in {k \cup others : k \in SUBSET free} } :
          others \in {{}, AngleNames \ free} }
  IN
  /\ Imported
  /\ components = AutoDiscover(NoComponents, DiscoveredModules, {})
  /\ rcall = NoCall
  /\ conf = NewConfig
  /\ cio = NoConfigCall
  \* one call: extract_pose_angles on 33 landmarks at the corners of a unit
  \* square or all at one point, three of them with any visibility of 0.3,
  \* 0.5, 0.7; compare_poses twice with thresholds t1 and t2 (and once by the
  \* legacy system) on a pair of angle maps; or calculate_similarity_score
  /\ calc \in
       {[fn |-> "extract_pose_angles",
         args |-> [landmarks |->
                     [id \in 0..32 |->
                        [x |-> IF spread THEN id % 2 ELSE 0,
                         y |-> IF spread THEN (id \div 2) % 2 ELSE 0,
                         visibility |-> IF id \in DOMAIN v THEN v[id] ELSE rest]]],
         out |-> [angles |-> Pending]] :
          v \in [{11, 13, 23} -> {30, 50, 70}], rest \in {50, 70},
          spread \in BOOLEAN}
       \cup
       {[fn |-> "compare_poses",
         args |-> [pose1 |-> a, pose2 |-> b, t1 |-> t, t2 |-> Some(20),
                   angle_threshold |-> 15],
         out |-> [first |-> Pending, second |-> Pending, system |-> Pending]] :
          a \in AngleMaps, b \in AngleMaps, t \in {Absent, Some(10), Some(20)}}
       \cup
       {[fn |-> "calculate_similarity_score",
         args |-> [pose1 |-> a, pose2 |-> b],
         out |-> [score |-> Pending]] : a \in AngleMaps, b \in AngleMaps}

RunExtractPoseAngles ==
  /\ calc.fn = "extract_pose_angles"
  /\ calc.out.angles = Pending
  /\ calc' = [calc EXCEPT !.out.angles =
                 Some(ExtractPoseAngles(calc.args.landmarks))]

\* analyzer.compare_poses(pose1, pose2, threshold), threshold being t1 for
\* the first call and t2 for the second
RunComparePoses(call) ==
  /\ calc.fn = "compare_poses"
  /\ calc.out[call] = Pending
  /\ calc' = [calc EXCEPT !.out[call] =
                 Some(ComparePoses(calc.args.pose1, calc.args.pose2,
                                   IF call = "first" THEN calc.args.t1
                                   ELSE calc.args.t2,
                                   calc.args.angle_threshold))]

\* system.compare_poses(user_pose) with pose1 loaded as the standard pose
RunSystemComparePoses ==
  /\ calc.fn = "compare_poses"
  /\ calc.out.system = Pending
  /\ calc' = [calc EXCEPT !.out.system =
                 Some(SystemComparePoses(Some(calc.args.pose1), calc.args.pose2))]

RunCalculateSimilarityScore ==
  /\ calc.fn = "calculate_similarity_score"
  /\ calc.out.score = Pending
  /\ calc' = [calc EXCEPT !.out.score =
                 Some(CalculateSimilarityScore(calc.args.pose1, calc.args.pose2))]

NextPose ==
  /\ UNCHANGED <<registryVars, depsClassVars, containerVars, pc, frame, budget,
                 rcall, conf, cio, app>>
  /\ \/ RunExtractPoseAngles
     \/ \E call \in {"first", "second"} : RunComparePoses(call)
     \/ RunSystemComparePoses
     \/ RunCalculateSimilarityScore

SpecPose == InitPose /\ [][NextPose]_vars

\* ------------------------------------------------- use of the configuration
\* what a configuration file can hold: an object with some of the sections,
\* each a number (not an object), or an object that sets one field or has a
\* key the section does not know
Files ==
  LET NoSection == [kind |-> "absent", fields |-> <<>>]
      BadSection == [kind |-> "number", fields |-> <<>>]
      SectionObject(section, f, v) ==
        [kind |-> "object",
         fields |-> [x \in DocKeys(section) |-> IF x = f THEN v ELSE Missing]]
      SectionValues(section) ==
        CASE section = "detector" ->
               {NoSection, BadSection,
                SectionObject("detector", "model_path", Val("num", 1)),
                SectionObject("detector", "extra", Val("num", 1))}
          [] section = "analyzer" -> {NoSection, BadSection}
          [] section = "colors" ->
               {NoSection, BadSection,
                SectionObject("colors", "green", Val("list", 1))}
          [] section = "custom" ->
               {NoSection, BadSection,
                SectionObject("custom", "roi", Val("list", 1))}
          [] OTHER -> {NoSection}
  IN
  {[kind |-> "object",
    sections |-> [sec \in Sections \cup {"custom"} |->
                    CASE sec = "detector" -> d
                      [] sec = "analyzer" -> a
                      [] sec = "colors" -> c
                      [] sec = "custom" -> u
                      [] OTHER -> NoSection]] :
     d \in SectionValues("detector"), a \in SectionValues("analyzer"),
     c \in SectionValues("colors"), u \in SectionValues("custom")}
  \cup
  {[kind |-> k, sections |-> <<>>] : k \in {"missing", "unreadable", "invalid",
                                              "array", "number"}}

InitConfig ==
  /\ Imported
  /\ components = AutoDiscover(NoComponents, DiscoveredModules, {})
  /\ rcall = NoCall
  /\ calc = NoCalc
  /\ conf = NewConfig
  /\ cio = NoConfigCall

ConfigCalled(op, file, res, made) ==
  [op |-> op, file |-> file, res |-> res, made |-> made]

\* config.set(key, value); the call's arguments are kept in file
DoSet(key, value) ==
  /\ conf' = ConfigSet(conf, key, value)
  /\ cio' = ConfigCalled("set", [key |-> key, value |-> value], TRUE, NewConfig)

\* config.get(key, default); res is what it returns
DoGet(key, default) ==
  /\ cio' = ConfigCalled("get", [key |-> key, value |-> default],
                         ConfigGet(conf, key, default), NewConfig)
  /\ UNCHANGED conf

\* config.load_from_file(path), the file at path being file
DoLoad(file) ==
  /\ conf' = LoadFromFile(conf, file).conf
  /\ cio' = ConfigCalled("load", file, LoadFromFile(conf, file).res, NewConfig)

\* config.from_dict(config.to_dict()), the document passing through a JSON
\* file or not
DoReload(json) ==
  LET doc == IF json THEN Json(ToDict(conf)) ELSE ToDict(conf)
  IN /\ conf' = FromDict(conf, doc).conf
     /\ cio' = ConfigCalled(IF json THEN "reload_json" ELSE "reload", Missing,
                            ~FromDict(conf, doc).raised, NewConfig)

\* DefaultConfig().from_dict(config.to_dict()): made is the new configuration
DoCopy(json) ==
  LET doc == IF json THEN Json(ToDict(conf)) ELSE ToDict(conf)
  IN /\ cio' = ConfigCalled(IF json THEN "copy_json" ELSE "copy", Missing,
                            ~FromDict(NewConfig, doc).raised,
                            FromDict(NewConfig, doc).conf)
     /\ UNCHANGED conf

NextConfig ==
  /\ UNCHANGED <<registryVars, depsClassVars, containerVars, pc, frame, budget,
                 rcall, calc, app>>
  /\ \/ \E key \in {<<"detector", "model_path">>, <<"colors", "green">>, <<"roi">>,
                       <<"colors", "nosuch">>, <<"custom", "roi">>} :
          \E value \in {Val("num", 1), Val("list", 1), Val("tuple", 1)} :
            DoSet(key, value)
     \/ DoSet(<<"detector">>, Val("num", 1))
     \/ \E key \in {<<"detector", "model_path">>, <<"colors", "green">>, <<"roi">>,
                       <<"colors", "nosuch">>, <<"custom", "roi">>, <<"detector">>} :
          DoGet(key, Val("none", 0))
     \/ \E file \in Files : DoLoad(file)
     \/ \E json \in BOOLEAN : DoReload(json)
     \/ \E json \in BOOLEAN : DoCopy(json)

SpecConfig == InitConfig /\ [][NextConfig]_vars

\* ------------------------------------------------------------------ claims
\* the instance each cached handle holds
HeldMap == [k \in DOMAIN instances |-> lazy[instances[k]].inst]
\* the instances built for key that no reset has dropped
LiveFor(key) == {id \in DOMAIN objs : KeyOf(id) = key /\ objs[id].fate = "live"}
Keys == {Key(cat, name) : cat \in Categories, name \in UNION {ArgNames(c) : c \in Categories}}
Resetting == \E t \in Threads : pc[t] \in {"reset_instance", "reset_all", "cleanup"}
GetReturns(t) == pc[t] = "lazy_ret"

\* C1: concurrent first gets of one (category, name) run the factory (and
\* the initialization hook) once in total and all receive the same instance
C1_OneConstructionPerKey ==
  /\ \A k \in DOMAIN serial : serial[k] <= 1
  /\ \A t \in Threads : GetReturns(t) =>
       Returned(t) = <<frame[t].cat, frame[t].name, 1>>

\* C2: concurrent first Registry.get calls of a deferred entry invoke its
\* resolver at most once, and every caller obtains the resolved factory
C2_ResolverAtMostOnce ==
  /\ \A k \in DOMAIN loaderCalls : loaderCalls[k] <= 1
  /\ \A t \in Threads :
       LET k == Key(frame[t].cat, frame[t].arg)
       IN (pc[t] = "rget_ret" /\ k \in DOMAIN loaderCalls /\ loaderCalls[k] >= 1)
            => RGetReturned(t) = lazy_imports[k]

\* C3: every Deps() / get_instance() yields the one container object, the
\* body of __init__ runs exactly once per process, and no access empties
\* the cache or the selections the container already holds
C3_SingleContainer ==
  /\ newCount <= 1
  /\ initCount <= 1
  /\ imported => (newCount = 1 /\ initCount = 1 /\ initialized)
  /\ \A t \in Threads : pc[t] = "deps_ret" => depsInstance = 1
  /\ \A k \in DOMAIN serial : k \in DOMAIN instances

C3_Witness ==
  \E t \in Threads :
    /\ pc[t] = "deps_ret"
    /\ frame[t].op = "Deps"
    /\ t # importer
    /\ \E k \in DOMAIN instances : HeldMap[k] # NoId

\* C4: without a reset or cleanup, a held instance is never replaced: every
\* get of a pair returns the instance its handle holds, a get that finds an
\* instance held does not run the factory, and a pair never has two
\* instances alive
C4_HeldNeverReplaced ==
  [][ /\ ~Resetting =>
           \A k \in DOMAIN instances : HeldMap[k] # NoId =>
              (k \in DOMAIN instances' /\ HeldMap'[k] = HeldMap[k])
      /\ \A t \in SeqThreads : GetReturns(t)' =>
           /\ Returned(t)' = HeldMap'[Key(frame'[t].cat, frame'[t].name)]
           /\ Returned(t)' # NoId
           /\ frame'[t].held0 # NoId =>
                (Returned(t)' = frame'[t].held0 /\ ~frame'[t].inv)
      /\ \A k \in Keys : Cardinality(LiveFor(k)') <= 1 ]_vars

C4_Witness ==
  \E t \in SeqThreads :
    /\ GetReturns(t)
    /\ frame[t].held0 # NoId
    /\ Returned(t) = frame[t].held0

\* C5: a get without a name resolves the selection, else the registry
\* default: with no selection and a default present it succeeds with an
\* instance of the default's class; with selection s, with an instance of
\* the class registered under s
C5_ResolvesSelectionElseDefault ==
  \A t \in SeqThreads :
    (frame[t].op = "get" /\ frame[t].arg = None /\ pc[t] \in {"lazy_ret", "raised"}) =>
      LET cat == frame[t].cat
          want == IF selections[cat] = None
                  THEN RegistryGetDefault(components, lazy_imports, cat)
                  ELSE RegistryGet(components, lazy_imports, cat, selections[cat])
      IN want # None =>
           /\ GetReturns(t)
           /\ Returned(t) \in DOMAIN objs
           /\ objs[Returned(t)].cls = want

\* C6: a detector whose initialize() returned false is neither returned by
\* get nor kept in the cache
C6_NoFailedDetector ==
  /\ \A t \in SeqThreads : (GetReturns(t) /\ Returned(t) \in DOMAIN objs) =>
       objs[Returned(t)].ok
  /\ \A k \in DOMAIN instances : HeldMap[k] \in DOMAIN objs => objs[HeldMap[k]].ok

\* C7: select or get with an unregistered name ends with the exception and
\* changes no selection and no cached or constructed instance
UnregisteredCall(t) ==
  /\ \/ pc[t] = "select"
     \/ frame[t].op = "get" /\ frame[t].arg # None
  /\ Find(components, frame[t].cat, frame[t].arg) = 0

C7_UnregisteredNameFails ==
  [][ \A t \in SeqThreads : UnregisteredCall(t) =>
        /\ selections' = selections
        /\ objs' = objs
        /\ serial' = serial
        /\ \A k \in DOMAIN instances : k \in DOMAIN instances' /\ HeldMap'[k] = HeldMap[k]
        /\ \A k \in DOMAIN instances' : k \notin DOMAIN instances => HeldMap'[k] = NoId
        /\ pc'[t] \notin {"lazy_ret", "ret"}
        /\ pc'[t] = "idle" => pc[t] = "raised"
        /\ pc[t] \in {"select", "lazy_make"} => pc'[t] = "raised" ]_vars

C7_Witness ==
  \E t \in SeqThreads :
    /\ pc[t] = "raised"
    /\ UnregisteredCall(t)
    /\ frame[t].inv
    /\ \E c \in Categories : selections[c] # None
    /\ \E k \in DOMAIN instances : HeldMap[k] # NoId

\* C8: reset_instance empties the handle of its pair and of no other,
\* reset_all empties every handle; the next get of a reset pair runs the
\* factory again and returns a new instance, never a dropped one
C8_ResetThenReconstruct ==
  [][ /\ \A t \in SeqThreads : pc[t] = "reset_instance" =>
           /\ DOMAIN instances' = DOMAIN instances
           /\ \A k \in DOMAIN instances :
                HeldMap'[k] = IF k = Key(frame[t].cat, frame[t].arg) THEN NoId
                              ELSE HeldMap[k]
      /\ \A t \in SeqThreads : pc[t] = "reset_all" =>
           /\ DOMAIN instances' = DOMAIN instances
           /\ \A k \in DOMAIN instances : HeldMap'[k] = NoId
      /\ \A t \in SeqThreads : GetReturns(t)' =>
           /\ Returned(t)' \in DOMAIN objs'
           /\ objs'[Returned(t)'].fate = "live"
           /\ frame'[t].held0 = NoId =>
                /\ frame'[t].inv
                /\ Returned(t)'[3] = serial'[Key(frame'[t].cat, frame'[t].name)] ]_vars

C8_Witness ==
  \E t \in SeqThreads :
    /\ GetReturns(t)
    /\ frame[t].inv
    /\ Returned(t)[3] >= 2
    /\ \A id \in DOMAIN objs : objs[id].fate = "live"

\* C9: select changes the active selection of its category and nothing
\* else; the instances cached for other names stay, so a later get of the
\* earlier selection finds its instance and does not run the factory
C9_SelectKeepsCache ==
  [][ /\ \A t \in SeqThreads : pc[t] = "select" =>
           /\ instances' = instances
           /\ lazy' = lazy
           /\ objs' = objs
           /\ serial' = serial
           /\ \A c \in Categories : c # frame[t].cat => selections'[c] = selections[c]
           /\ selections'[frame[t].cat] \in {selections[frame[t].cat], frame[t].arg}
           /\ pc'[t] = "ret" => selections'[frame[t].cat] = frame[t].arg
      /\ \A t \in SeqThreads :
           (GetReturns(t)' /\ frame'[t].held0 # NoId) =>
              (~frame'[t].inv /\ Returned(t)' = frame'[t].held0) ]_vars

C9_Witness ==
  \E t \in SeqThreads :
    /\ pc[t] = "ret"
    /\ frame[t].op = "select"
    /\ selections[frame[t].cat] = frame[t].arg
    /\ \E k \in DOMAIN instances :
         /\ k[1] = frame[t].cat
         /\ k[2] # frame[t].arg
         /\ HeldMap[k] # NoId

\* C10: cleanup calls close() exactly once on every cached, constructed
\* instance that has one, also when the close() of another raises, builds
\* nothing, and leaves the cache empty; afterwards get never returns a
\* released instance
C10_CleanupClosesAll ==
  [][ /\ \A t \in SeqThreads : pc[t] = "cleanup" =>
           /\ \A k \in DOMAIN instances : HeldMap[k] # NoId =>
                /\ HeldMap[k] \in DOMAIN objs'
                /\ objs'[HeldMap[k]].closes = IF HasClose(objs[HeldMap[k]].cls) THEN 1 ELSE 0
           /\ serial' = serial
           /\ DOMAIN objs' \subseteq DOMAIN objs
           /\ instances' = <<>>
      /\ \A id \in DOMAIN objs' : objs'[id].fate = "live" => objs'[id].closes = 0
      /\ \A t \in SeqThreads : GetReturns(t)' =>
           /\ Returned(t)' \in DOMAIN objs'
           /\ objs'[Returned(t)'].fate = "live" ]_vars

C10_Witness ==
  \E t \in SeqThreads :
    /\ pc[t] = "ret"
    /\ frame[t].op = "cleanup"
    /\ frame[t].raising # {}
    /\ Cardinality({id \in DOMAIN objs : objs[id].fate = "cleaned" /\ objs[id].closes = 1}) >= 2
    /\ instances = <<>>

\* the names of a category's dict in insertion order, and the entries marked
\* is_default
NamesOf(table) == [i \in 1..Len(table) |-> table[i].name]
Marked(table) == {i \in 1..Len(table) : table[i].is_default}
IsPrefix(a, b) == Len(a) <= Len(b) /\ \A i \in 1..Len(a) : a[i] = b[i]

\* C11: get_default returns the class of the one entry marked is_default;
\* with none marked, the class of the entry whose name was registered first
\* (a registration never moves an earlier name, and get_default itself
\* changes neither order nor marks), and nothing for an empty category
C11_DefaultIsMarkedElseFirst ==
  [][ /\ rcall'.op = "get_default" =>
           LET before == CategoryTable(components, rcall'.cat)
               after == CategoryTable(components', rcall'.cat)
           IN /\ NamesOf(after) = NamesOf(before)
              /\ Marked(after) = Marked(before)
              /\ Cardinality(Marked(before)) = 1 =>
                   /\ rcall'.res # None
                   /\ rcall'.res = after[CHOOSE i \in Marked(before) : TRUE].cls
              /\ (Marked(before) = {} /\ Len(before) > 0) =>
                   /\ rcall'.res # None
                   /\ rcall'.res = after[1].cls
              /\ Len(before) = 0 => rcall'.res = None
      /\ rcall'.op \in {"register", "register_lazy"} =>
           IsPrefix(NamesOf(CategoryTable(components, rcall'.cat)),
                    NamesOf(CategoryTable(components', rcall'.cat))) ]_vars

C11_Witness ==
  /\ rcall.op = "get_default"
  /\ Len(CategoryTable(components, rcall.cat)) >= 2
  /\ Marked(CategoryTable(components, rcall.cat)) = {}
  /\ rcall.res = CategoryTable(components, rcall.cat)[1].cls
  /\ rcall.res # None

\* C12: in every category at most one descriptor is marked is_default
C12_SingleDefault ==
  \A cat \in DOMAIN components : Cardinality(Marked(components[cat])) <= 1

\* is the entry (cat, name) deferred and not yet resolved
Unresolved(comps, lz, cat, name) ==
  /\ Key(cat, name) \in DOMAIN lz
  /\ \E i \in 1..Len(CategoryTable(comps, cat)) :
       comps[cat][i].name = name /\ comps[cat][i].cls = None

\* C13: register_lazy does not run the loader; a get (or get_default) that
\* finds the entry unresolved runs it once and returns the class it
\* produced; one that finds it resolved returns the cached class and runs
\* nothing
C13_ResolvedOnFirstGet ==
  [][ /\ rcall'.op = "register_lazy" =>
           /\ loaderCalls'[Key(rcall'.cat, rcall'.name)] = 0
           /\ Unresolved(components', lazy_imports', rcall'.cat, rcall'.name)
           /\ \A k \in DOMAIN loaderCalls :
                k # Key(rcall'.cat, rcall'.name) => loaderCalls'[k] = loaderCalls[k]
      /\ \A k \in DOMAIN loaderCalls' : loaderCalls'[k] <= 1
      /\ rcall'.op \in {"get", "get_default"} =>
           LET name == IF rcall'.op = "get" THEN rcall'.name
                       ELSE DefaultName(components, rcall'.cat)
               k == Key(rcall'.cat, name)
           IN /\ DOMAIN loaderCalls' = DOMAIN loaderCalls
              /\ \A j \in DOMAIN loaderCalls : j # k => loaderCalls'[j] = loaderCalls[j]
              /\ k \in DOMAIN loaderCalls =>
                   IF Unresolved(components, lazy_imports, rcall'.cat, name)
                   THEN /\ loaderCalls'[k] = loaderCalls[k] + 1
                        /\ rcall'.res = lazy_imports[k]
                        /\ ~Unresolved(components', lazy_imports', rcall'.cat, name)
                   ELSE /\ loaderCalls'[k] = loaderCalls[k]
                        /\ components' = components ]_vars

C13_Witness ==
  /\ rcall.op = "get"
  /\ Key(rcall.cat, rcall.name) \in DOMAIN loaderCalls
  /\ loaderCalls[Key(rcall.cat, rcall.name)] = 1
  /\ rcall.res = lazy_imports[Key(rcall.cat, rcall.name)]

\* C14: get of an unregistered name or category, and get_default of an
\* empty or unknown category, return None, raise nothing and leave the
\* registry as it was
C14_AbsenceIsNone ==
  [][ (\/ /\ rcall'.op = "get"
          /\ \A i \in 1..Len(CategoryTable(components, rcall'.cat)) :
               components[rcall'.cat][i].name # rcall'.name
       \/ /\ rcall'.op = "get_default"
          /\ Len(CategoryTable(components, rcall'.cat)) = 0)
      => /\ rcall'.res = None
         /\ ~rcall'.raised
         /\ components' = components
         /\ lazy_imports' = lazy_imports
         /\ loaderCalls' = loaderCalls ]_vars

C14_Witness ==
  /\ rcall.op = "get"
  /\ rcall.res = None
  /\ Len(CategoryTable(components, rcall.cat)) > 0
  /\ \A i \in 1..Len(components[rcall.cat]) : components[rcall.cat][i].name # rcall.name
  /\ lazy_imports # <<>>

\* C15: auto_discover does not raise; every module that imports and scans
\* is registered under the name and default mark of its class, and the
\* entries of a module that raised are left as they were
C15_DiscoverySkipsFailures ==
  [][ rcall'.op = "auto_discover" =>
        /\ ~rcall'.raised
        /\ \A n \in 1..Len(DiscoveredModules) :
             LET cls == ModuleClass(DiscoveredModules[n])
                 cat == ClassCategory(cls)
                 name == NameProperty(cls)
                 old == {components[cat][i] : i \in {j \in 1..Len(components[cat]) :
                                                        components[cat][j].name = name}}
                 new == {components'[cat][i] : i \in {j \in 1..Len(components'[cat]) :
                                                        components'[cat][j].name = name}}
             IN IF DiscoveredModules[n] \in rcall'.failing
                THEN new = old
                ELSE new = {[name |-> name, cls |-> cls,
                             is_default |-> ClassIsDefault(cls)]} ]_vars

C15_Witness ==
  /\ rcall.op = "auto_discover"
  /\ rcall.failing = {"default_analyzer"}
  /\ components["analyzer"] = <<>>
  /\ Len(components["config"]) = 1
  /\ Len(components["detector"]) >= 1

\* C16: changing the mapping list_components returned changes nothing that
\* get, get_default or list_components return afterwards
C16_ListingIsCopy ==
  [][ rcall'.op = "mutate" =>
        \A cat \in DirectCategories :
          /\ CategoryTable(components', cat) = CategoryTable(components, cat)
          /\ RegistryGetDefault(components', lazy_imports', cat)
               = RegistryGetDefault(components, lazy_imports, cat)
          /\ \A name \in ArgNames("detector") \cup {"Extra"} :
               RegistryGet(components', lazy_imports', cat, name)
                 = RegistryGet(components, lazy_imports, cat, name) ]_vars

C16_Witness ==
  /\ rcall.op = "mutate"
  /\ Len(CategoryTable(components, rcall.cat)) > 0
  /\ NamesOf(rcall.res.table) # NamesOf(CategoryTable(components, rcall.cat))

\* C17: initialize() makes one attempt with the delegate it starts with and,
\* only when that was the GPU and failed, one more with the CPU; it returns
\* true iff an attempt succeeded; started without GPU it makes exactly one
C17_InitializeAtMostTwo ==
  (calc.fn = "initialize" /\ calc.out.initialize # Pending) =>
    LET a == calc.args
        out == calc.out.initialize[1]
        second == a.use_gpu /\ ~a.gpuOK
    IN /\ out.attempts = IF second THEN 2 ELSE 1
       /\ out.use_gpu = (a.use_gpu /\ ~second)
       /\ out.ok = IF a.use_gpu THEN a.gpuOK \/ a.cpuOK ELSE a.cpuOK

C17_Witness ==
  /\ calc.fn = "initialize"
  /\ calc.out.initialize # Pending
  /\ calc.args.use_gpu /\ ~calc.args.gpuOK /\ calc.args.cpuOK
  /\ calc.out.initialize[1].ok /\ calc.out.initialize[1].attempts = 2

\* is the file missing, unreadable, not JSON, or a document that is not an
\* object of section objects
Malformed(file) ==
  \/ file.kind \in {"missing", "unreadable", "invalid", "array", "number"}
  \/ /\ file.kind = "object"
     /\ \E sec \in DOMAIN file.sections :
          file.sections[sec].kind \notin {"absent", "object"}

\* C18: load_from_file of a missing, unreadable or malformed file returns
\* False and leaves every section and the custom map as they were
C18_LoadFailsClosed ==
  [][ (cio'.op = "load" /\ Malformed(cio'.file)) =>
        (~cio'.res /\ conf' = conf) ]_vars

\* no colour field holds a list; no field outside the colours and no custom
\* entry holds a tuple
NoListColour(c) == \A f \in FieldsOf("colors") : c["colors"][f].kind # "list"
NoTupleElsewhere(c) ==
  \A sec \in DOMAIN c : sec # "colors" =>
    \A f \in DOMAIN c[sec] : c[sec][f].kind # "tuple"

PresentIn(angles) == {n \in DOMAIN angles : angles[n] # Absent}
\* the threshold a compare_poses call of calc works with
ThresholdOf(call) ==
  CASE call = "first" ->
         IF calc.args.t1 = Absent THEN calc.args.angle_threshold
         ELSE calc.args.t1[1]
    [] call = "second" ->
         IF calc.args.t2 = Absent THEN calc.args.angle_threshold
         ELSE calc.args.t2[1]
    [] OTHER -> 15
\* the names of the reference whose angle is within th of the candidate's,
\* or has no candidate value to differ from
WithinIn(angles1, angles2, th) ==
  {n \in DOMAIN angles1 :
     \/ angles1[n] = Absent
     \/ n \notin DOMAIN angles2
     \/ angles2[n] = Absent
     \/ (angles1[n][1] - angles2[n][1] <= th /\ angles2[n][1] - angles1[n][1] <= th)}

\* C21: the overall ratio of compare_poses is (matched angles among the names
\* whose reference value is present) / (names whose reference value is
\* present), names absent in the reference counting in neither; with no
\* present reference angle it is exactly 0.0
C21_OverallRatio ==
  calc.fn = "compare_poses" =>
    \A call \in {"first", "second", "system"} :
      calc.out[call] # Pending =>
        LET present == PresentIn(calc.args.pose1)
            matched == present \cap WithinIn(calc.args.pose1, calc.args.pose2,
                                             ThresholdOf(call))
            ratio == calc.out[call][1].ratio
        IN IF present = {} THEN ratio = <<0, 1>>
           ELSE ratio = <<Cardinality(matched), Cardinality(present)>>

C21_Witness ==
  /\ calc.fn = "compare_poses"
  /\ calc.out.first # Pending /\ calc.out.system # Pending
  /\ \E n \in DOMAIN calc.args.pose1 : calc.args.pose1[n] = Absent
  /\ calc.out.first[1].ratio = <<6, 7>>
  /\ calc.out.system[1].ratio = <<6, 7>>


\* C22: compare_poses returns a verdict for each of the twelve limbs of
\* LIMB_TO_ANGLES: true for the two limbs without governing angles, else
\* the conjunction of the governing angles' verdicts, an angle name the
\* reference map does not hold counting as true; a mismatching angle makes
\* every limb it governs false
C22_LimbVerdicts ==
  calc.fn = "compare_poses" =>
    \A call \in {"first", "second"} :
      calc.out[call] # Pending =>
        LET limbs == calc.out[call][1].limbs
            within == WithinIn(calc.args.pose1, calc.args.pose2, ThresholdOf(call))
            mismatching == DOMAIN calc.args.pose1 \ within
        IN /\ DOMAIN limbs =
                {"left_upper_arm", "left_forearm", "right_upper_arm",
                 "right_forearm", "left_thigh", "left_shin", "right_thigh",
                 "right_shin", "left_torso", "right_torso", "torso_top",
                 "torso_bottom"}
           /\ limbs["torso_top"] /\ limbs["torso_bottom"]
           /\ \A limb \in DOMAIN limbs :
                limbs[limb] = (LIMB_TO_ANGLES[limb] \cap mismatching = {})
           /\ "left_elbow_angle" \in mismatching =>
                ~limbs["left_upper_arm"] /\ ~limbs["left_forearm"]
           /\ "left_shoulder_angle" \in mismatching =>
                ~limbs["left_upper_arm"] /\ ~limbs["left_torso"]

C22_Witness ==
  /\ calc.fn = "compare_poses"
  /\ calc.out.first # Pending
  /\ DOMAIN calc.args.pose1 = {"left_elbow_angle"}
  /\ ~calc.out.first[1].limbs["left_upper_arm"]
  /\ ~calc.out.first[1].limbs["left_forearm"]
  /\ calc.out.first[1].limbs["left_torso"]
  /\ calc.out.first[1].limbs["right_thigh"]

\* C23: extract_pose_angles returns a map with exactly the eight names of
\* ANGLE_JOINTS, a name holding an angle iff each of its three landmarks has
\* a visibility strictly above 0.5, and None otherwise
C23_ExtractFullyKeyed ==
  (calc.fn = "extract_pose_angles" /\ calc.out.angles # Pending) =>
    LET angles == calc.out.angles[1]
        lm == calc.args.landmarks
    IN /\ DOMAIN angles = AngleNames
       /\ Cardinality(DOMAIN angles) = 8
       /\ \A i \in 1..Len(ANGLE_JOINTS) :
            (angles[ANGLE_JOINTS[i][4]] # Absent) <=>
              \A k \in 1..3 : lm[ANGLE_JOINTS[i][k]].visibility > 50

C23_Witness ==
  /\ calc.fn = "extract_pose_angles"
  /\ calc.out.angles # Pending
  /\ calc.args.landmarks[11].visibility = 50
  /\ calc.args.landmarks[13].visibility = 70
  /\ calc.args.landmarks[23].visibility = 70
  /\ calc.args.landmarks[15].visibility = 70
  /\ calc.out.angles[1]["left_shoulder_angle"] = Absent
  /\ calc.out.angles[1]["right_shoulder_angle"] # Absent

\* C24: calculate_similarity_score is the average of the per-angle
\* similarities over exactly the names that hold a value in both maps; it is
\* 0.0 when there is no such name and 1.0 for two identical maps with a
\* present angle
C24_SimilarityScore ==
  (calc.fn = "calculate_similarity_score" /\ calc.out.score # Pending) =>
    LET a == calc.args.pose1
        b == calc.args.pose2
        both == PresentIn(a) \cap PresentIn(b)
        equal == {n \in both : a[n] = b[n]}
        score == calc.out.score[1]
    IN /\ both = {} => score = <<0, 1>>
       /\ both # {} =>
            /\ score[2] = Cardinality(both)
            /\ score[1] = 1000 * Cardinality(equal)
                            + 801 * Cardinality(both \ equal)
       /\ (a = b /\ PresentIn(a) # {}) => score[1] = 1000 * score[2]

C24_Witness ==
  /\ calc.fn = "calculate_similarity_score"
  /\ calc.out.score # Pending
  /\ calc.args.pose1 = calc.args.pose2
  /\ PresentIn(calc.args.pose1) = AngleNames
  /\ calc.out.score[1] = <<8000, 8>>


\* C28: in compare_poses an angle present in the reference and absent in
\* the candidate counts as matched: a candidate without any angle against a
\* reference with a present angle gives ratio 1.0 and every limb true
C28_AbsentCandidateMatches ==
  (/\ calc.fn = "compare_poses"
   /\ PresentIn(calc.args.pose2) = {}
   /\ PresentIn(calc.args.pose1) # {}) =>
    \A call \in {"first", "second", "system"} :
      calc.out[call] # Pending =>
        /\ calc.out[call][1].ratio[1] = calc.out[call][1].ratio[2]
        /\ calc.out[call][1].ratio[2] = Cardinality(PresentIn(calc.args.pose1))
        /\ \A limb \in DOMAIN LIMB_TO_ANGLES : calc.out[call][1].limbs[limb]

C28_Witness ==
  /\ calc.fn = "compare_poses"
  /\ calc.args.pose2 = <<>>
  /\ PresentIn(calc.args.pose1) = AngleNames
  /\ calc.out.first # Pending
  /\ calc.out.first[1].ratio = <<8, 8>>
  /\ calc.out.first[1].limbs["left_upper_arm"]

\* C29: compare_poses is monotone in the threshold: for t1 <= t2 a limb
\* verdict true at t1 is true at t2, and the ratio at t2 is at least the
\* ratio at t1
C29_MonotoneInThreshold ==
  (/\ calc.fn = "compare_poses"
   /\ calc.out.first # Pending /\ calc.out.second # Pending
   /\ ThresholdOf("first") <= ThresholdOf("second")) =>
    LET r1 == calc.out.first[1]
        r2 == calc.out.second[1]
    IN /\ \A limb \in DOMAIN r1.limbs : r1.limbs[limb] => r2.limbs[limb]
       /\ r2.ratio[1] * r1.ratio[2] >= r1.ratio[1] * r2.ratio[2]

C29_Witness ==
  /\ calc.fn = "compare_poses"
  /\ calc.args.t1 = Some(10)
  /\ calc.out.first # Pending /\ calc.out.second # Pending
  /\ ~calc.out.first[1].limbs["left_forearm"]
  /\ calc.out.second[1].limbs["left_forearm"]
  /\ calc.out.first[1].ratio = <<0, 8>>
  /\ calc.out.second[1].ratio = <<8, 8>>

\* C30: get(k, default) after set(k, v) returns v for every key k that has
\* a single part, the names of the sections among them, or that addresses a
\* field of a section
C30_SetThenGet ==
  [][ (/\ cio.op = "set" /\ cio'.op = "get"
       /\ cio'.file.key = cio.file.key
       /\ \/ Len(cio.file.key) = 1
          \/ (cio.file.key[1] \in Sections
                /\ cio.file.key[2] \in FieldsOf(cio.file.key[1])))
        => cio'.res = cio.file.value ]_vars

\* C27: a construction failure is not cached: when the factory raises during
\* a container get the exception reaches the caller, the handle of the pair
\* holds no instance and is unlocked, and a get that finds the handle empty
\* invokes the factory again, returning the new instance unless the factory
\* raises again
C27_FailureNotCached ==
  [][ \A t \in SeqThreads :
        /\ (pc[t] = "lazy_make" /\ pc'[t] = "raised") =>
             /\ frame'[t].err
             /\ lazy'[frame[t].h] = [inst |-> NoId, lock |-> None]
             /\ instances' = instances
             /\ objs' = objs /\ serial' = serial
        /\ (pc[t] = "raised" /\ frame[t].op = "get") =>
             /\ pc'[t] = "idle"
             /\ lazy' = lazy /\ instances' = instances /\ objs' = objs
        /\ (pc[t] = "lazy_check" /\ lazy[frame[t].h].inst = NoId) =>
             pc'[t] = "lazy_lock"
        /\ (pc[t] = "lazy_make" /\ lazy[frame[t].h].inst = NoId) =>
             /\ frame'[t].inv
             /\ pc'[t] = "raised" <=>
                  Find(components, frame[t].cat, frame[t].name) = 0
             /\ pc'[t] = "lazy_ret" =>
                  /\ Returned(t)' \in DOMAIN objs' \ DOMAIN objs
                  /\ lazy'[frame[t].h].inst = Returned(t)' ]_vars

\* a get starts on a pair whose handle is cached and empty although no
\* instance was ever built for it (the construction of an earlier get
\* failed), the name being registered by now
C27_Witness ==
  \E t \in SeqThreads :
    /\ pc[t] = "get_check"
    /\ IsCached(instances, InstanceKey(frame[t].cat, frame[t].name))
    /\ lazy[HandleOf(instances, InstanceKey(frame[t].cat, frame[t].name))].inst = NoId
    /\ SerialOf(serial, InstanceKey(frame[t].cat, frame[t].name)) = 0
    /\ Find(components, frame[t].cat, frame[t].name) # 0

\* C25: LazyInstance.get always returns a constructed instance, never None,
\* also while reset_instance or reset_all of the same handle runs in another
\* thread
C25_GetNeverNone ==
  [][ \A t \in Threads :
        (pc[t] = "lazy_ret" /\ pc'[t] = "idle") =>
          /\ Returned(t) # NoId
          /\ Returned(t) \in DOMAIN objs ]_vars

\* C26: once the model-change handler has succeeded for model m, every
\* frame processed afterwards is detected by the instance the container
\* holds for m, not by a detector the application obtained before
C26_FramesUseChangedModel ==
  (app.changed # None /\ app.used # NoId) =>
    /\ KeyOf(app.used) = InstanceKey("detector", app.changed)
    /\ InstanceKey("detector", app.changed) \in DOMAIN instances
    /\ HeldMap[InstanceKey("detector", app.changed)] = app.used

====
